---- MODULE Spec2Model ----
(***************************************************************************)
(* The incrementally rehashing hash table of dict.c: two bucket arrays     *)
(* ht[0] and ht[1], the rehash cursor rehashidx, the safe-iterator count   *)
(* and the process-wide resize gate.  Keys are integers hashed by          *)
(* dictIdentityHashFunction; an entry pointer is named by the key of the   *)
(* entry it points to (keys are unique in a table), NULL by <<>>.          *)
(***************************************************************************)
EXTENDS Integers, Sequences, FiniteSets, TLC

VARIABLES d, dict_can_resize, iters, abs, last, rnd, server, db, client, hist,
          eventLoop, clock, pte

vars == <<d, dict_can_resize, iters, abs, last, rnd, server, db, client, hist,
          eventLoop, clock, pte>>

\* what the calls on the table d leave alone: the position of a sampling loop
\* and the server, database and client structures of the callers of dict.c
callers == <<rnd, server, db, client, hist, eventLoop, clock, pte>>

(* ------------------------------ bounds -------------------------------- *)

\* the largest size asked of dictExpand and the largest n given to dictRehash
MaxExpand == 8
MaxRehashN == 2

DICT_HT_INITIAL_SIZE == 4
\* the n of each dictRehash call made by dictRehashMilliseconds
RehashBatch == 100
dict_force_resize_ratio == 5

\* keys 1, 5 and 9 share slot 1 of a table of 4 slots and split over slots 1
\* and 5 of a table of 8; two values tell a stored value from the one it replaced
Keys == {1, 2, 5, 9}
IterKeys == {1, 2, 5}
\* the keys of a sampled table: one slot of 4, two slots of 8
SampleKeys == {1, 5}
Vals == {1, 2}
ExpandSizes == {MaxExpand \div 2 - 1, MaxExpand}
RehashNs == 1..MaxRehashN
\* the keys of an insert-only run: enough for a rehash from 4 to 8 slots to end
\* with more than 8 entries stored
NumInsertKeys == 10
InsertKeys == 0..(NumInsertKeys - 1)
\* the keys of a run that fills a table of 4 slots to 6 entries a slot, the
\* load at which a table grows with the resize gate disabled
MaxGateKeys == 24
GateKeys == 0..(MaxGateKeys - 1)
\* the keys of a run that fills every slot of a table of 4 and starts its rehash
NumDrainKeys == 5
DrainKeys == 0..(NumDrainKeys - 1)
\* iterators open at a time
Iters == {1}

NULL == <<>>
Ptr(k) == <<k>>

(* --------------------------- hash functions --------------------------- *)

dictIdentityHashFunction(key) == key

dictHashKey(key) == dictIdentityHashFunction(key)

dictCompareKeys(key1, key2) == key1 = key2

RECURSIVE BitAnd(_, _)
BitAnd(a, b) ==
    IF a = 0 \/ b = 0 THEN 0
    ELSE (a % 2) * (b % 2) + 2 * BitAnd(a \div 2, b \div 2)

(* ------------------------------ dictht -------------------------------- *)

\* a chain is the sequence of entries from the head; an entry is [key, val]
Entry(k, v) == [key |-> k, val |-> v]

_dictReset == [table |-> [i \in {} |-> <<>>], size |-> 0, sizemask |-> 0, used |-> 0]

TableIsNull(ht) == DOMAIN ht.table = {}

_dictInit == [ht |-> [t \in {0, 1} |-> _dictReset], rehashidx |-> -1, iterators |-> 0]

dictIsRehashing(dd) == dd.rehashidx # -1

dictSize(dd) == dd.ht[0].used + dd.ht[1].used

ChainKeys(chain) == {chain[i].key : i \in 1..Len(chain)}

\* position of key in a chain, 0 when absent (the linear scan-to-equal)
RECURSIVE ChainPos(_, _, _)
ChainPos(chain, key, i) ==
    IF i > Len(chain) THEN 0
    ELSE IF dictCompareKeys(key, chain[i].key) THEN i
    ELSE ChainPos(chain, key, i + 1)

RemoveAt(chain, p) == SubSeq(chain, 1, p - 1) \o SubSeq(chain, p + 1, Len(chain))

(* ------------------------------ resizing ------------------------------ *)

RECURSIVE NextPowerFrom(_, _)
NextPowerFrom(i, size) == IF i >= size THEN i ELSE NextPowerFrom(i * 2, size)

\* a rounding that gives the initial size whatever size is asked for
_dictNextPower_Initial(size) == DICT_HT_INITIAL_SIZE

_dictNextPower(size) == NextPowerFrom(DICT_HT_INITIAL_SIZE, size)

\* an expand that does not refuse a size below the number of entries
dictExpand_AnySize(dd, size) ==
    IF dictIsRehashing(dd)
    THEN [d |-> dd, ret |-> "DICT_ERR"]
    ELSE LET realsize == _dictNextPower(size)
             n == [table |-> [i \in 0..(realsize - 1) |-> <<>>], size |-> realsize,
                   sizemask |-> realsize - 1, used |-> 0]
         IN IF TableIsNull(dd.ht[0])
            THEN [d |-> [dd EXCEPT !.ht[0] = n], ret |-> "DICT_OK"]
            ELSE [d |-> [dd EXCEPT !.ht[1] = n, !.rehashidx = 0], ret |-> "DICT_OK"]

dictExpand(dd, size) ==
    IF dictIsRehashing(dd) \/ dd.ht[0].used > size
    THEN [d |-> dd, ret |-> "DICT_ERR"]
    ELSE LET realsize == _dictNextPower(size)
             n == [table |-> [i \in 0..(realsize - 1) |-> <<>>], size |-> realsize,
                   sizemask |-> realsize - 1, used |-> 0]
         IN IF TableIsNull(dd.ht[0])
            THEN [d |-> [dd EXCEPT !.ht[0] = n], ret |-> "DICT_OK"]
            ELSE [d |-> [dd EXCEPT !.ht[1] = n, !.rehashidx = 0], ret |-> "DICT_OK"]

\* a resize that does not read the resize gate
dictResize_Ungated(dd, can_resize) ==
    IF dictIsRehashing(dd)
    THEN [d |-> dd, ret |-> "DICT_ERR"]
    ELSE LET minimal == IF dd.ht[0].used < DICT_HT_INITIAL_SIZE
                        THEN DICT_HT_INITIAL_SIZE ELSE dd.ht[0].used
         IN dictExpand(dd, minimal)

\* a resize that refuses a table whose ht[0] was never allocated
dictResize_RefuseUnallocated(dd, can_resize) ==
    IF ~can_resize \/ dictIsRehashing(dd) \/ dd.ht[0].size = 0
    THEN [d |-> dd, ret |-> "DICT_ERR"]
    ELSE LET minimal == IF dd.ht[0].used < DICT_HT_INITIAL_SIZE
                        THEN DICT_HT_INITIAL_SIZE ELSE dd.ht[0].used
         IN dictExpand(dd, minimal)

dictResize(dd, can_resize) ==
    IF ~can_resize \/ dictIsRehashing(dd)
    THEN [d |-> dd, ret |-> "DICT_ERR"]
    ELSE LET minimal == IF dd.ht[0].used < DICT_HT_INITIAL_SIZE
                        THEN DICT_HT_INITIAL_SIZE ELSE dd.ht[0].used
         IN dictExpand(dd, minimal)

\* a growth check that asks for twice the size, not twice the larger of size
\* and used
_dictExpandIfNeeded_DoubleSize(dd, can_resize) ==
    IF dictIsRehashing(dd) THEN [d |-> dd, ret |-> "DICT_OK"]
    ELSE IF dd.ht[0].size = 0 THEN dictExpand(dd, DICT_HT_INITIAL_SIZE)
    ELSE IF dd.ht[0].used >= dd.ht[0].size
            /\ (can_resize \/ (dd.ht[0].used \div dd.ht[0].size) > dict_force_resize_ratio)
    THEN dictExpand(dd, dd.ht[0].size * 2)
    ELSE [d |-> dd, ret |-> "DICT_OK"]

\* a growth check that does not read the resize gate
_dictExpandIfNeeded_Ungated(dd, can_resize) ==
    IF dictIsRehashing(dd) THEN [d |-> dd, ret |-> "DICT_OK"]
    ELSE IF dd.ht[0].size = 0 THEN dictExpand(dd, DICT_HT_INITIAL_SIZE)
    ELSE IF dd.ht[0].used >= dd.ht[0].size
    THEN dictExpand(dd, (IF dd.ht[0].size > dd.ht[0].used
                         THEN dd.ht[0].size ELSE dd.ht[0].used) * 2)
    ELSE [d |-> dd, ret |-> "DICT_OK"]

\* a growth check that lets the table fill one entry past its size
_dictExpandIfNeeded_Strict(dd, can_resize) ==
    IF dictIsRehashing(dd) THEN [d |-> dd, ret |-> "DICT_OK"]
    ELSE IF dd.ht[0].size = 0 THEN dictExpand(dd, DICT_HT_INITIAL_SIZE)
    ELSE IF dd.ht[0].used > dd.ht[0].size
            /\ (can_resize \/ (dd.ht[0].used \div dd.ht[0].size) > dict_force_resize_ratio)
    THEN dictExpand(dd, (IF dd.ht[0].size > dd.ht[0].used
                         THEN dd.ht[0].size ELSE dd.ht[0].used) * 2)
    ELSE [d |-> dd, ret |-> "DICT_OK"]

_dictExpandIfNeeded(dd, can_resize) ==
    IF dictIsRehashing(dd) THEN [d |-> dd, ret |-> "DICT_OK"]
    ELSE IF dd.ht[0].size = 0 THEN dictExpand(dd, DICT_HT_INITIAL_SIZE)
    ELSE IF dd.ht[0].used >= dd.ht[0].size
            /\ (can_resize \/ (dd.ht[0].used \div dd.ht[0].size) > dict_force_resize_ratio)
    THEN dictExpand(dd, (IF dd.ht[0].size > dd.ht[0].used
                         THEN dd.ht[0].size ELSE dd.ht[0].used) * 2)
    ELSE [d |-> dd, ret |-> "DICT_OK"]

(* ------------------------------ rehashing ----------------------------- *)

\* a rehash step that takes the slot under the cursor, empty or not
SkipEmpty_None(ht, i) == i

\* first index >= i whose slot of ht is not empty; ht.size when there is none
\* (the C loop would then read past the array)
RECURSIVE SkipEmpty(_, _)
SkipEmpty(ht, i) ==
    IF i >= ht.size THEN ht.size
    ELSE IF ht.table[i] # <<>> THEN i
    ELSE SkipEmpty(ht, i + 1)

\* a move that masks the hash with half of the mask of ht1
RECURSIVE MoveChain_HalfMask(_, _, _)
MoveChain_HalfMask(chain, i, ht1) ==
    IF i > Len(chain) THEN ht1
    ELSE LET de == chain[i]
             h == BitAnd(dictHashKey(de.key), ht1.sizemask \div 2)
         IN MoveChain_HalfMask(chain, i + 1,
                               [ht1 EXCEPT !.table[h] = <<de>> \o @, !.used = @ + 1])

\* relink the entries of chain, head first, each at the head of its slot of ht1
RECURSIVE MoveChain(_, _, _)
MoveChain(chain, i, ht1) ==
    IF i > Len(chain) THEN ht1
    ELSE LET de == chain[i]
             h == BitAnd(dictHashKey(de.key), ht1.sizemask)
         IN MoveChain(chain, i + 1,
                      [ht1 EXCEPT !.table[h] = <<de>> \o @, !.used = @ + 1])

\* a step that counts the chain it moved as one entry
RehashOneBucket_CountOne(dd) ==
    LET idx == SkipEmpty(dd.ht[0], dd.rehashidx)
        chain == dd.ht[0].table[idx]
        ht1 == MoveChain(chain, 1, dd.ht[1])
        ht0 == [dd.ht[0] EXCEPT !.table[idx] = <<>>, !.used = @ - 1]
    IN [dd EXCEPT !.ht[0] = ht0, !.ht[1] = ht1, !.rehashidx = idx + 1]

\* a step that moves the cursor two slots on
RehashOneBucket_SkipNext(dd) ==
    LET idx == SkipEmpty(dd.ht[0], dd.rehashidx)
        chain == dd.ht[0].table[idx]
        ht1 == MoveChain(chain, 1, dd.ht[1])
        ht0 == [dd.ht[0] EXCEPT !.table[idx] = <<>>, !.used = @ - Len(chain)]
    IN [dd EXCEPT !.ht[0] = ht0, !.ht[1] = ht1, !.rehashidx = idx + 2]

RehashOneBucket(dd) ==
    LET idx == SkipEmpty(dd.ht[0], dd.rehashidx)
        chain == dd.ht[0].table[idx]
        ht1 == MoveChain(chain, 1, dd.ht[1])
        ht0 == [dd.ht[0] EXCEPT !.table[idx] = <<>>, !.used = @ - Len(chain)]
    IN [dd EXCEPT !.ht[0] = ht0, !.ht[1] = ht1, !.rehashidx = idx + 1]

\* a rehash that never swaps the tables once ht[0] is drained
RehashFinish_Never(dd) == dd

RehashFinish(dd) ==
    [dd EXCEPT !.ht[0] = dd.ht[1], !.ht[1] = _dictReset, !.rehashidx = -1]

\* the while(n--) loop; fault is set when the assertion fails or the skip loop
\* leaves the array
RECURSIVE RehashLoop(_, _)
RehashLoop(dd, n) ==
    IF n = 0 THEN [d |-> dd, ret |-> 1, fault |-> "none"]
    ELSE IF dd.ht[0].used = 0 THEN [d |-> RehashFinish(dd), ret |-> 0, fault |-> "none"]
    ELSE IF ~(dd.ht[0].size > dd.rehashidx) THEN [d |-> dd, ret |-> 1, fault |-> "assert"]
    ELSE IF SkipEmpty(dd.ht[0], dd.rehashidx) >= dd.ht[0].size
         THEN [d |-> dd, ret |-> 1, fault |-> "out_of_bounds"]
    ELSE RehashLoop(RehashOneBucket(dd), n - 1)

dictRehash(dd, n) ==
    IF ~dictIsRehashing(dd) THEN [d |-> dd, ret |-> 0, fault |-> "none"]
    ELSE RehashLoop(dd, n)

\* the number of dictRehash(d, 1) calls made back to back from dd until the
\* table is no longer rehashing, counted up to fuel
RECURSIVE RehashCalls(_, _)
RehashCalls(dd, fuel) ==
    IF ~dictIsRehashing(dd) \/ fuel = 0 THEN 0
    ELSE 1 + RehashCalls(dictRehash(dd, 1).d, fuel - 1)

\* the loop of dictRehashMilliseconds after a dictRehash(d, 100) that gave r:
\* it stops when r.ret is 0, or when the clock has passed ms, which it does
\* after the k-th batch
RECURSIVE RehashBatches(_, _, _)
RehashBatches(r, k, rehashes) ==
    IF r.ret = 0 \/ r.fault # "none" THEN [d |-> r.d, ret |-> rehashes, fault |-> r.fault]
    ELSE IF k <= 1 THEN [d |-> r.d, ret |-> rehashes + RehashBatch, fault |-> "none"]
    ELSE RehashBatches(dictRehash(r.d, RehashBatch), k - 1, rehashes + RehashBatch)

dictRehashMilliseconds(dd, k) == RehashBatches(dictRehash(dd, RehashBatch), k, 0)

\* an amortized step that does not look at the safe-iterator count
_dictRehashStep_Always(dd) == dictRehash(dd, 1).d

_dictRehashStep(dd) == IF dd.iterators = 0 THEN dictRehash(dd, 1).d ELSE dd

AmortizedStep(dd) == IF dictIsRehashing(dd) THEN _dictRehashStep(dd) ELSE dd

(* --------------------------- find, add, delete ------------------------ *)

\* a search that never looks into ht[1]
Lookup_PrimaryOnly(dd, key) ==
    LET idx0 == BitAnd(dictHashKey(key), dd.ht[0].sizemask)
    IN [table |-> 0, idx |-> idx0, pos |-> ChainPos(dd.ht[0].table[idx0], key, 1)]

\* the for (table = 0; table <= 1; table++) search shared by dictFind,
\* _dictKeyIndex and dictGenericDelete: [table, idx, pos], pos = 0 when absent
Lookup(dd, key) ==
    LET h == dictHashKey(key)
        idx0 == BitAnd(h, dd.ht[0].sizemask)
        p0 == ChainPos(dd.ht[0].table[idx0], key, 1)
    IN IF p0 # 0 THEN [table |-> 0, idx |-> idx0, pos |-> p0]
       ELSE IF ~dictIsRehashing(dd) THEN [table |-> 0, idx |-> idx0, pos |-> 0]
       ELSE LET idx1 == BitAnd(h, dd.ht[1].sizemask)
                p1 == ChainPos(dd.ht[1].table[idx1], key, 1)
            IN [table |-> 1, idx |-> idx1, pos |-> p1]

\* the value dictFind returns for a search that ended at l
FindAt(d1, l) ==
    [d |-> d1, loc |-> l,
     he |-> IF l.pos = 0 THEN NULL ELSE <<d1.ht[l.table].table[l.idx][l.pos]>>]

FindIn(d1, key) == FindAt(d1, Lookup(d1, key))

dictFind(dd, key) ==
    IF dd.ht[0].size = 0
    THEN [d |-> dd, he |-> NULL, loc |-> [table |-> 0, idx |-> 0, pos |-> 0]]
    ELSE FindIn(AmortizedStep(dd), key)

\* a key index that is returned even when the key is already there
KeyIndexAt_IgnoreFound(d1, l) == [d |-> d1, index |-> l.idx]

KeyIndexAt(d1, l) == [d |-> d1, index |-> IF l.pos # 0 THEN -1 ELSE l.idx]

\* _dictKeyIndex after its call e of _dictExpandIfNeeded
KeyIndexIn(e, key) ==
    IF e.ret = "DICT_ERR" THEN [d |-> e.d, index |-> -1]
    ELSE KeyIndexAt(e.d, Lookup(e.d, key))

_dictKeyIndex(dd, key, can_resize) == KeyIndexIn(_dictExpandIfNeeded(dd, can_resize), key)

\* a link that leaves the used counter as it is
LinkEntry_NoCount(d2, t, index, key) ==
    [d |-> [d2 EXCEPT !.ht[t].table[index] = <<Entry(key, 0)>> \o @],
     entry |-> [table |-> t, idx |-> index]]

\* the new entry linked at the head of slot index of ht[1] when rehashing, of
\* ht[0] otherwise; its value is not set yet
LinkEntry(d2, t, index, key) ==
    [d |-> [d2 EXCEPT !.ht[t].table[index] = <<Entry(key, 0)>> \o @, !.ht[t].used = @ + 1],
     entry |-> [table |-> t, idx |-> index]]

\* an insertion that links the new entry in ht[0] whatever the mode
AddRawAt_Primary(ki, key) ==
    IF ki.index = -1 THEN [d |-> ki.d, entry |-> NULL]
    ELSE LinkEntry(ki.d, 0, BitAnd(ki.index, ki.d.ht[0].sizemask), key)

\* dictAddRaw after its call ki of _dictKeyIndex
AddRawAt(ki, key) ==
    IF ki.index = -1 THEN [d |-> ki.d, entry |-> NULL]
    ELSE LinkEntry(ki.d, IF dictIsRehashing(ki.d) THEN 1 ELSE 0, ki.index, key)

dictAddRaw(dd, key, can_resize) ==
    AddRawAt(_dictKeyIndex(AmortizedStep(dd), key, can_resize), key)

\* dictSetVal on the entry at the head of slot idx of table t
SetHeadVal(dd, t, idx, val) == [dd EXCEPT !.ht[t].table[idx][1].val = val]

\* dictAdd after its call r of dictAddRaw
AddVal(r, val) ==
    IF r.entry = NULL THEN [d |-> r.d, ret |-> "DICT_ERR", log |-> <<>>]
    ELSE [d |-> SetHeadVal(r.d, r.entry.table, r.entry.idx, val), ret |-> "DICT_OK",
          log |-> << <<"setval", val>> >>]

dictAdd(dd, key, val, can_resize) == AddVal(dictAddRaw(dd, key, can_resize), val)

\* an overwrite that destroys the old value before it installs the new one
Overwrite_FreeFirst(f, val) ==
    [d |-> [f.d EXCEPT !.ht[f.loc.table].table[f.loc.idx][f.loc.pos].val = val],
     ret |-> "0",
     log |-> << <<"freeval", f.he[1].val>>, <<"setval", val>> >>]

\* the second half of dictReplace, on the entry f found by its dictFind:
\* auxentry = *entry, dictSetVal, dictFreeVal(&auxentry)
Overwrite(f, val) ==
    [d |-> [f.d EXCEPT !.ht[f.loc.table].table[f.loc.idx][f.loc.pos].val = val],
     ret |-> "0",
     log |-> << <<"setval", val>>, <<"freeval", f.he[1].val>> >>]

\* dictReplace after its call a of dictAdd
ReplaceAfterAdd(a, key, val) ==
    IF a.ret = "DICT_OK" THEN [d |-> a.d, ret |-> "1", log |-> a.log]
    ELSE Overwrite(dictFind(a.d, key), val)

dictReplace(dd, key, val, can_resize) ==
    ReplaceAfterAdd(dictAdd(dd, key, val, can_resize), key, val)

\* an unlink that forgets to decrement the used counter
Unlink_KeepUsed(d1, l, nofree) ==
    [d |-> [d1 EXCEPT !.ht[l.table].table[l.idx] = RemoveAt(@, l.pos)],
     ret |-> "DICT_OK", log |-> <<>>]

\* an unlink that goes on to shrink the table to fit
Unlink_ThenResize(d1, l, nofree) ==
    [d |-> dictResize([d1 EXCEPT !.ht[l.table].table[l.idx] = RemoveAt(@, l.pos),
                                 !.ht[l.table].used = @ - 1], TRUE).d,
     ret |-> "DICT_OK", log |-> <<>>]

\* the entry at l is unlinked and freed, its key and value destroyed unless nofree
Unlink(d1, l, nofree) ==
    [d |-> [d1 EXCEPT !.ht[l.table].table[l.idx] = RemoveAt(@, l.pos),
                      !.ht[l.table].used = @ - 1],
     ret |-> "DICT_OK",
     log |-> IF nofree THEN <<>>
             ELSE << <<"freekey", d1.ht[l.table].table[l.idx][l.pos].key>>,
                     <<"freeval", d1.ht[l.table].table[l.idx][l.pos].val>> >>]

DeleteAt(d1, l, nofree) ==
    IF l.pos = 0 THEN [d |-> d1, ret |-> "DICT_ERR", log |-> <<>>]
    ELSE Unlink(d1, l, nofree)

DeleteIn(d1, key, nofree) == DeleteAt(d1, Lookup(d1, key), nofree)

\* a delete that reports success on a table that was never allocated
DeleteOnNull_Ok(dd) == [d |-> dd, ret |-> "DICT_OK", log |-> <<>>]

\* the early return of dictGenericDelete for ht[0].size == 0
DeleteOnNull(dd) == [d |-> dd, ret |-> "DICT_ERR", log |-> <<>>]

dictGenericDelete(dd, key, nofree) ==
    IF dd.ht[0].size = 0 THEN DeleteOnNull(dd)
    ELSE DeleteIn(AmortizedStep(dd), key, nofree)

\* every key linked in a chain of either table
TableKeys(ht) == UNION {ChainKeys(ht.table[i]) : i \in DOMAIN ht.table}

LinkedKeys(dd) == TableKeys(dd.ht[0]) \cup TableKeys(dd.ht[1])

\* _dictClear on both tables, then the reset of rehashidx and iterators
dictEmpty(dd) == [dd EXCEPT !.ht[0] = _dictReset, !.ht[1] = _dictReset,
                            !.rehashidx = -1, !.iterators = 0]

(* ------------------------------ sampling ------------------------------ *)

\* the chain head the rejection loop of dictGetRandomKey reads for a draw h
RandomBucket(dd, h) ==
    IF dictIsRehashing(dd)
    THEN IF h >= dd.ht[0].size THEN dd.ht[1].table[h - dd.ht[0].size]
         ELSE dd.ht[0].table[h]
    ELSE dd.ht[0].table[h]

\* a rejection loop that draws its slot from ht[0] alone even while rehashing
RandomDraws_PrimaryOnly(dd) == 0..(dd.ht[0].size - 1)

\* the values h the random source can give the loop
RandomDraws(dd) ==
    IF dictIsRehashing(dd) THEN 0..(dd.ht[0].size + dd.ht[1].size - 1)
    ELSE {BitAnd(r, dd.ht[0].sizemask) : r \in 0..dd.ht[0].sizemask}

\* the entries the two random draws can select in d1
RandomFrom(d1) ==
    [d |-> d1,
     hes |-> UNION {{<<RandomBucket(d1, h)[listele]>> :
                       listele \in 1..Len(RandomBucket(d1, h))} :
                    h \in RandomDraws(d1)}]

\* a random-key call that looks at the entry count of ht[0] alone
dictGetRandomKey_PrimaryCount(dd) ==
    IF dd.ht[0].used = 0 THEN [d |-> dd, hes |-> {NULL}]
    ELSE RandomFrom(AmortizedStep(dd))

\* the entries dictGetRandomKey can return: {NULL} for an empty table, and no
\* entry at all when the rejection loop cannot stop
dictGetRandomKey(dd) ==
    IF dictSize(dd) = 0 THEN [d |-> dd, hes |-> {NULL}]
    ELSE RandomFrom(AmortizedStep(dd))

(* ------------------------------ iterators ----------------------------- *)

\* An iterator: the fields of dictIterator (entry and nextEntry are entry
\* pointers), and bookkeeping: live (allocated and not released), done (dictNext
\* has returned NULL), nextFreed (the entry nextEntry points to has been freed
\* since it was captured), retFreed (the pointer last returned was dangling),
\* scan (what else has run on the table since the iterator was created:
\* "alone" nothing, "delcur" only deletions of the entry it had just returned,
\* "mixed" anything else) and seen (the keys returned so far while alone).
NoIterator ==
    [live |-> FALSE, safe |-> FALSE, table |-> 0, index |-> -1, entry |-> NULL,
     nextEntry |-> NULL, done |-> FALSE, nextFreed |-> FALSE, retFreed |-> FALSE,
     scan |-> "mixed", seen |-> <<>>]

dictGetIterator == [NoIterator EXCEPT !.live = TRUE, !.scan = "alone"]

dictGetSafeIterator == [dictGetIterator EXCEPT !.safe = TRUE]

HeadPtr(chain) == IF chain = <<>> THEN NULL ELSE Ptr(chain[1].key)

\* an iterator that saves the entry it returns in place of its successor
NextOfKey_Self(dd, key) == Ptr(key)

\* entry->next for the live entry with the given key
NextOfKey(dd, key) ==
    LET l == IF ChainPos(dd.ht[0].table[BitAnd(dictHashKey(key), dd.ht[0].sizemask)], key, 1) # 0
             THEN [table |-> 0, idx |-> BitAnd(dictHashKey(key), dd.ht[0].sizemask)]
             ELSE [table |-> 1, idx |-> BitAnd(dictHashKey(key), dd.ht[1].sizemask)]
        chain == dd.ht[l.table].table[l.idx]
        p == ChainPos(chain, key, 1)
    IN IF p < Len(chain) THEN Ptr(chain[p + 1].key) ELSE NULL

\* a scan that stops at the end of ht[0] even while rehashing
RECURSIVE NextBucket_PrimaryOnly(_, _)
NextBucket_PrimaryOnly(dd, it) ==
    LET index == it.index + 1
        ht == dd.ht[it.table]
    IN IF index >= ht.size THEN [it EXCEPT !.index = index, !.done = TRUE]
       ELSE LET e == HeadPtr(ht.table[index])
                it1 == [it EXCEPT !.index = index, !.entry = e]
            IN IF e # NULL
               THEN [it1 EXCEPT !.nextEntry = NextOfKey(dd, e[1])]
               ELSE NextBucket_PrimaryOnly(dd, it1)

\* the while (1) loop of dictNext from the point where iter->entry is NULL;
\* gives the iterator at the return and the pointer returned
RECURSIVE NextBucket(_, _)
NextBucket(dd, it) ==
    LET index == it.index + 1
        ht == dd.ht[it.table]
    IN IF index >= ht.size
       THEN IF dictIsRehashing(dd) /\ it.table = 0
            THEN LET e == HeadPtr(dd.ht[1].table[0])
                     it1 == [it EXCEPT !.table = 1, !.index = 0, !.entry = e]
                 IN IF e # NULL
                    THEN [it1 EXCEPT !.nextEntry = NextOfKey(dd, e[1])]
                    ELSE NextBucket(dd, it1)
            ELSE [it EXCEPT !.index = index, !.done = TRUE]
       ELSE LET e == HeadPtr(ht.table[index])
                it1 == [it EXCEPT !.index = index, !.entry = e]
            IN IF e # NULL
               THEN [it1 EXCEPT !.nextEntry = NextOfKey(dd, e[1])]
               ELSE NextBucket(dd, it1)

\* the iterators dictNext can leave behind: one, unless it reads the freed
\* entry nextEntry points to, whose next field can then hold any pointer
dictNext(dd, it) ==
    IF it.entry = NULL THEN {NextBucket(dd, it)}
    ELSE IF it.nextEntry = NULL THEN {NextBucket(dd, [it EXCEPT !.entry = NULL])}
    ELSE IF it.nextFreed
         THEN {[it EXCEPT !.entry = it.nextEntry, !.retFreed = TRUE,
                          !.nextEntry = n, !.nextFreed = FALSE] :
                  n \in {NULL} \cup {Ptr(k) : k \in LinkedKeys(dd)}}
    ELSE {[it EXCEPT !.entry = it.nextEntry,
                     !.nextEntry = NextOfKey(dd, it.nextEntry[1])]}

\* the increment dictNext makes on the first advance of a safe iterator
dictNextCount(dd, it) ==
    IF it.entry = NULL /\ it.safe /\ it.index = -1 /\ it.table = 0
    THEN [dd EXCEPT !.iterators = @ + 1] ELSE dd

\* a release that leaves the safe-iterator count as it is
dictReleaseIterator_NoDecrement(dd, it) == dd

dictReleaseIterator(dd, it) ==
    IF it.safe /\ ~(it.index = -1 /\ it.table = 0)
    THEN [dd EXCEPT !.iterators = @ - 1] ELSE dd

(* ------------------------------- actions ------------------------------ *)

\* the record of the last call: the operation, its key argument (the size
\* argument for dictExpand, 0 when it has none), what it returned (ret; he for an entry pointer, as the entry it
\* points to) and, in log, the dictSetVal and the key and value destructor
\* calls it made, in order; for dictRehash, the cursor it started from; for
\* dictExpand and dictResize, the size of ht[0] they were called on; for a
\* release, ret tells whether it gave up a registered safe iterator
Call(op, key, ret, he, log) == [op |-> op, key |-> key, ret |-> ret, he |-> he, log |-> log]

\* another operation ran on the table: no live scan is an undisturbed one
Touch(its) ==
    [i \in Iters |-> IF its[i].live THEN [its[i] EXCEPT !.scan = "mixed", !.seen = <<>>]
                     ELSE its[i]]

\* the entry with this key was unlinked and freed by a delete: pointers to it
\* dangle, and a scan stays "delcur" only if it had just returned that entry
Deleted(its, key) ==
    [i \in Iters |->
        IF ~its[i].live THEN its[i]
        ELSE [its[i] EXCEPT
                !.nextFreed = @ \/ its[i].nextEntry = Ptr(key),
                !.seen = <<>>,
                !.scan = IF its[i].scan # "mixed" /\ its[i].entry = Ptr(key)
                            /\ ~its[i].done /\ ~its[i].retFreed
                         THEN "delcur" ELSE "mixed"]]

\* every entry was freed (dictEmpty)
AllFreed(its) ==
    [i \in Iters |-> IF its[i].live
                     THEN [its[i] EXCEPT !.nextFreed = @ \/ its[i].nextEntry # NULL,
                                         !.scan = "mixed", !.seen = <<>>]
                     ELSE its[i]]

(* ---------------------------- ae.c: time events ---------------------------- *)

\* the largest id a time event gets, the last instant of the clock and the
\* largest number of events one call of processTimeEvents fires
MaxTimeEventId == 2
MaxClock == 1000
MaxProcessed == 3

\* the delays, in milliseconds, that callers and handlers ask for
Milliseconds == {0, 1}

\* the instants, in milliseconds, at which the clock is read
ClockInstants == {t \in {0, 999, 1000, 1001} : t <= MaxClock}

AE_NOMORE == -1
AE_OK == 0
AE_ERR == -1

\* what a handler returns: AE_NOMORE, or the delay of its next run
Retvals == {AE_NOMORE} \cup Milliseconds

aeCreateEventLoop == [timeEventHead |-> <<>>, timeEventNextId |-> 0]

\* the clock clk counts milliseconds; gettimeofday gives seconds and
\* microseconds, and the milliseconds are the microseconds divided by 1000
aeGetTime(clk) == [sec |-> clk \div 1000, ms |-> clk % 1000]

WhenCarried(when_sec, when_ms) ==
    IF when_ms >= 1000 THEN [sec |-> when_sec + 1, ms |-> when_ms - 1000]
    ELSE [sec |-> when_sec, ms |-> when_ms]

aeAddMillisecondsToNow(milliseconds, clk) ==
    WhenCarried(aeGetTime(clk).sec + (milliseconds \div 1000),
                aeGetTime(clk).ms + (milliseconds % 1000))

aeTimeEvent(id, when) == [id |-> id, when_sec |-> when.sec, when_ms |-> when.ms]

\* the new event takes the next id and goes to the head of the list
aeCreateTimeEvent(el, milliseconds, clk) ==
    [el |-> [timeEventHead |->
                 <<aeTimeEvent(el.timeEventNextId,
                               aeAddMillisecondsToNow(milliseconds, clk))>>
                 \o el.timeEventHead,
             timeEventNextId |-> el.timeEventNextId + 1],
     ret |-> el.timeEventNextId]

\* the positions of the nodes of the list that carry the id
NodesWithId(head, id) == {p \in 1..Len(head) : head[p].id = id}

FirstNode(ps) == CHOOSE p \in ps : \A q \in ps : p <= q

\* the first node with the id is unlinked and freed
aeDeleteTimeEvent(el, id) ==
    IF NodesWithId(el.timeEventHead, id) = {} THEN [el |-> el, ret |-> AE_ERR]
    ELSE [el |-> [el EXCEPT !.timeEventHead =
                      RemoveAt(@, FirstNode(NodesWithId(@, id)))],
          ret |-> AE_OK]

\* the event's time has come: now >= when
TimeReached(te, now) ==
    \/ now.sec > te.when_sec
    \/ now.sec = te.when_sec /\ now.ms >= te.when_ms

\* te->next, for te a position in the list; 0 is the null pointer
NextNode(head, te) == IF te < Len(head) THEN te + 1 ELSE 0

HeadNode(head) == IF head = <<>> THEN 0 ELSE 1

\* an event registered after the call started is passed over
SkipEvent_Never(te, maxId) == FALSE

SkipEvent(te, maxId) == te.id > maxId

\* what a handler does with the event loop: it deletes the events h.deleted,
\* then creates one event for every delay of h.created, and returns h.retval
DeleteAll(el, ids) ==
    [el EXCEPT !.timeEventHead = SelectSeq(@, LAMBDA n : n.id \notin ids)]

RECURSIVE CreateAll(_, _, _)
CreateAll(el, delays, clk) ==
    IF delays = <<>> THEN el
    ELSE CreateAll(aeCreateTimeEvent(el, Head(delays), clk).el, Tail(delays), clk)

timeProc(el, h, clk) == CreateAll(DeleteAll(el, h.deleted), h.created, clk)

\* the ids the handler's creations get
CreatedIds(el, h) == el.timeEventNextId .. (el.timeEventNextId + Len(h.created) - 1)

Reschedule(head, p, when) ==
    [head EXCEPT ![p].when_sec = when.sec, ![p].when_ms = when.ms]

\* aeAddMillisecondsToNow(retval, &te->when_sec, &te->when_ms) after the
\* handler: te is the fired event when the handler left it in the list. When
\* the handler deleted it, te points to freed memory: the write is lost, or,
\* when the block was given to the event the handler created next (reused),
\* it lands in that event, which is the head of the list.
RescheduleFired(el, id, h, when) ==
    IF NodesWithId(el.timeEventHead, id) # {}
    THEN [el EXCEPT !.timeEventHead =
              Reschedule(@, FirstNode(NodesWithId(@, id)), when)]
    ELSE IF h.reused /\ h.created # <<>> /\ Len(h.created) = 1
    THEN [el EXCEPT !.timeEventHead = Reschedule(@, 1, when)]
    ELSE el

AfterHandler(el, id, h, clk) ==
    IF h.retval # AE_NOMORE
    THEN RescheduleFired(el, id, h, aeAddMillisecondsToNow(h.retval, clk))
    ELSE aeDeleteTimeEvent(el, id).el

\* the call frame of processTimeEvents: te, maxId and processed are its
\* locals; ids, fired and created record the ids in the list when the call
\* started, the ids fired so far and the ids handlers created within the call
NoCall == [pc |-> "idle", te |-> 0, maxId |-> -1, processed |-> 0,
           ids |-> {}, fired |-> <<>>, created |-> {}]

StartCall(el) ==
    [pc |-> "loop", te |-> HeadNode(el.timeEventHead),
     maxId |-> el.timeEventNextId - 1, processed |-> 0,
     ids |-> {el.timeEventHead[p].id : p \in 1..Len(el.timeEventHead)},
     fired |-> <<>>, created |-> {}]

\* the event at te is fired: the handler runs, the event is rescheduled or
\* deleted, and the scan restarts from the head
FireEvent(el, f, id, h, clk) ==
    [el |-> AfterHandler(timeProc(el, h, clk), id, h, clk),
     f |-> [f EXCEPT !.processed = @ + 1,
                     !.fired = Append(@, id),
                     !.created = @ \cup CreatedIds(el, h),
                     !.te = HeadNode(AfterHandler(timeProc(el, h, clk), id, h, clk).timeEventHead)]]

\* one turn of the while loop, te not null
processTimeEventsTurn(el, f, h, clk) ==
    IF SkipEvent(el.timeEventHead[f.te], f.maxId)
    THEN [el |-> el, f |-> [f EXCEPT !.te = NextNode(el.timeEventHead, @)]]
    ELSE IF TimeReached(el.timeEventHead[f.te], aeGetTime(clk))
    THEN FireEvent(el, f, el.timeEventHead[f.te].id, h, clk)
    ELSE [el |-> el, f |-> [f EXCEPT !.te = NextNode(el.timeEventHead, @)]]

AbsPut(f, k, v) == [x \in DOMAIN f \cup {k} |-> IF x = k THEN v ELSE f[x]]

AbsDel(f, k) == [x \in DOMAIN f \ {k} |-> f[x]]

Init ==
    /\ d = _dictInit
    /\ dict_can_resize = TRUE
    /\ iters = [i \in Iters |-> NoIterator]
    /\ abs = [x \in {} |-> 0]
    /\ last = Call("init", 0, "none", NULL, <<>>)
    /\ rnd = [pc |-> "idle", h |-> 0]
    /\ server = [pubsub_channels |-> _dictInit, pubsub_patterns |-> <<>>,
                 slowlog |-> <<>>, slowlog_entry_id |-> 0,
                 slowlog_log_slower_than |-> 0, slowlog_max_len |-> 2]
    /\ db = [id |-> 0, watched_keys |-> _dictInit]
    /\ client = [c \in {1, 2} |->
                   [db |-> 0, flags |-> {}, mstate |-> [commands |-> <<>>, count |-> 0],
                    watched_keys |-> <<>>, pubsub_channels |-> _dictInit,
                    pubsub_patterns |-> <<>>]]
    /\ hist = [op |-> "init", c |-> 0, reply |-> "none", called |-> <<>>, touched |-> {},
               queued |-> [c \in {1, 2} |-> <<>>], fault |-> FALSE]
    /\ eventLoop = aeCreateEventLoop
    /\ clock = 0
    /\ pte = NoCall

Returned(r, op, k) ==
    /\ d' = r.d
    /\ last' = Call(op, k, r.ret, NULL, r.log)
    /\ UNCHANGED dict_can_resize

DictAdd(k, v) ==
    /\ Returned(dictAdd(d, k, v, dict_can_resize), "add", k)
    /\ abs' = IF k \in DOMAIN abs THEN abs ELSE AbsPut(abs, k, v)
    /\ iters' = Touch(iters)
    /\ UNCHANGED callers

DictReplace(k, v) ==
    /\ Returned(dictReplace(d, k, v, dict_can_resize), "replace", k)
    /\ abs' = AbsPut(abs, k, v)
    /\ iters' = Touch(iters)
    /\ UNCHANGED callers

DictDelete(k, nofree) ==
    /\ Returned(dictGenericDelete(d, k, nofree), "delete", k)
    /\ abs' = AbsDel(abs, k)
    /\ iters' = IF last'.ret = "DICT_OK" THEN Deleted(iters, k) ELSE Touch(iters)
    /\ UNCHANGED callers

Found(r, k) ==
    /\ d' = r.d
    /\ last' = Call("find", k, IF r.he = NULL THEN "NULL" ELSE "ENTRY", r.he, <<>>)

DictFind(k) ==
    /\ Found(dictFind(d, k), k)
    /\ iters' = Touch(iters)
    /\ UNCHANGED <<abs, dict_can_resize>>
    /\ UNCHANGED callers

Rehashed(r) ==
    /\ d' = r.d
    /\ last' = Call("rehash", 0, IF r.fault # "none" THEN r.fault
                                 ELSE IF r.ret = 1 THEN "1" ELSE "0", NULL,
                     IF dictIsRehashing(d) THEN << <<"rehashidx", d.rehashidx>> >> ELSE <<>>)

DictRehash(n) ==
    /\ Rehashed(dictRehash(d, n))
    /\ iters' = Touch(iters)
    /\ UNCHANGED <<abs, dict_can_resize>>
    /\ UNCHANGED callers

RehashedFor(r) ==
    /\ d' = r.d
    /\ last' = Call("rehashms", 0, IF r.fault # "none" THEN r.fault
                                   ELSE IF r.ret = 0 THEN "0" ELSE "batches", NULL, <<>>)

\* dictRehashMilliseconds with an ms that the clock passes after k batches
DictRehashMilliseconds(k) ==
    /\ RehashedFor(dictRehashMilliseconds(d, k))
    /\ iters' = Touch(iters)
    /\ UNCHANGED <<abs, dict_can_resize>>
    /\ UNCHANGED callers

Resized(r, op, size) ==
    /\ d' = r.d
    /\ last' = Call(op, size, r.ret, NULL, << <<"size", d.ht[0].size>> >>)

DictExpand(size) ==
    /\ Resized(dictExpand(d, size), "expand", size)
    /\ iters' = Touch(iters)
    /\ UNCHANGED <<abs, dict_can_resize>>
    /\ UNCHANGED callers

DictResize ==
    /\ Resized(dictResize(d, dict_can_resize), "resize", 0)
    /\ iters' = Touch(iters)
    /\ UNCHANGED <<abs, dict_can_resize>>
    /\ UNCHANGED callers

Sampled(r) ==
    /\ d' = r.d
    /\ \E he \in r.hes :
          last' = Call("random", 0, IF he = NULL THEN "NULL" ELSE "ENTRY", he, <<>>)

DictGetRandomKey ==
    /\ Sampled(dictGetRandomKey(d))
    /\ iters' = Touch(iters)
    /\ UNCHANGED <<abs, dict_can_resize>>
    /\ UNCHANGED callers

\* dictGetRandomKey taken one step at a time.  SampleStart is the call up to
\* its rejection loop: the return of NULL for a table without entries, else the
\* amortized step and the entry into the do-while of the current mode
SampleStart ==
    /\ rnd.pc = "idle"
    /\ d' = IF dictSize(d) = 0 THEN d ELSE AmortizedStep(d)
    /\ rnd' = IF dictSize(d) = 0 THEN rnd ELSE [pc |-> "loop", h |-> 0]
    /\ last' = Call("random", 0, IF dictSize(d) = 0 THEN "NULL" ELSE "none", NULL, <<>>)
    /\ iters' = Touch(iters)
    /\ UNCHANGED <<abs, dict_can_resize, server, db, client, hist, eventLoop, clock, pte>>

\* one turn of the do-while whose draw h lands on an empty slot: he == NULL
SampleMiss(h) ==
    /\ rnd.pc = "loop"
    /\ RandomBucket(d, h) = <<>>
    /\ rnd' = [pc |-> "loop", h |-> h]
    /\ UNCHANGED <<d, dict_can_resize, iters, abs, last, server, db, client, hist, eventLoop, clock, pte>>

\* the turn whose draw h lands on a chain, and the second draw listele that
\* picks the entry returned
SampleHit(h) ==
    /\ rnd.pc = "loop"
    /\ RandomBucket(d, h) # <<>>
    /\ rnd' = [pc |-> "idle", h |-> h]
    /\ \E listele \in 1..Len(RandomBucket(d, h)) :
          last' = Call("random", 0, "ENTRY", <<RandomBucket(d, h)[listele]>>, <<>>)
    /\ UNCHANGED <<d, dict_can_resize, iters, abs, server, db, client, hist, eventLoop, clock, pte>>

DictEmpty ==
    /\ d' = dictEmpty(d)
    /\ abs' = [x \in {} |-> 0]
    /\ iters' = AllFreed(iters)
    /\ last' = Call("empty", 0, "none", NULL, <<>>)
    /\ UNCHANGED dict_can_resize
    /\ UNCHANGED callers

dictEnableResize ==
    /\ dict_can_resize' = TRUE
    /\ last' = Call("enable", 0, "none", NULL, <<>>)
    /\ UNCHANGED <<d, iters, abs>>
    /\ UNCHANGED callers

dictDisableResize ==
    /\ dict_can_resize' = FALSE
    /\ last' = Call("disable", 0, "none", NULL, <<>>)
    /\ UNCHANGED <<d, iters, abs>>
    /\ UNCHANGED callers

GetIterator(i, safe) ==
    /\ ~iters[i].live
    /\ iters' = [iters EXCEPT ![i] = IF safe THEN dictGetSafeIterator ELSE dictGetIterator]
    /\ last' = Call("iterator", 0, "none", NULL, <<>>)
    /\ UNCHANGED <<d, abs, dict_can_resize>>
    /\ UNCHANGED callers

\* one dictNext call; a scan stops calling it once it has returned NULL
DictNext(i) ==
    /\ iters[i].live
    /\ ~iters[i].done
    /\ \E it \in dictNext(d, iters[i]) :
          /\ iters' = [iters EXCEPT ![i] =
                          IF it.scan = "alone" /\ ~it.done
                          THEN [it EXCEPT !.seen = Append(@, it.entry[1])] ELSE it]
          /\ last' = Call("next", 0, IF it.done THEN "NULL" ELSE "ENTRY", NULL, <<>>)
    /\ d' = dictNextCount(d, iters[i])
    /\ UNCHANGED <<abs, dict_can_resize>>
    /\ UNCHANGED callers

ReleaseIterator(i) ==
    /\ iters[i].live
    /\ d' = dictReleaseIterator(d, iters[i])
    /\ iters' = [iters EXCEPT ![i] = NoIterator]
    /\ last' = Call("release", 0, IF iters[i].safe /\ iters[i].index # -1 THEN "safe" ELSE "none",
                     NULL, <<>>)
    /\ UNCHANGED <<abs, dict_can_resize>>
    /\ UNCHANGED callers

(* ------------------------------- adlist ------------------------------- *)

\* A list is the sequence of its node values, head first; a node is named by
\* its position, NULL by 0.
listCreate == <<>>

listAddNodeHead(list, value) == <<value>> \o list

listAddNodeTail(list, value) == Append(list, value)

\* the first node, from the head, whose value is key
listSearchKey(list, key) ==
    IF \E i \in 1..Len(list) : list[i] = key
    THEN CHOOSE i \in 1..Len(list) : list[i] = key /\ \A j \in 1..(i - 1) : list[j] # key
    ELSE 0

listDelNode(list, node) == RemoveAt(list, node)

(* -------------------------------- multi ------------------------------- *)

\* the clients, the keys they watch and the commands they queue
Clients == {1, 2}
WatchKeys == {1, 2}
WatchArgs == {<<1>>, <<2>>, <<1, 2>>}
Cmds == {1, 2}
\* the longest queue of a transaction of client 1; the other client, there
\* for the watch lists the two share, queues one command at most
MaxQueued == 2
QueueLimit(c) == IF c = 1 THEN MaxQueued ELSE 1

\* the structures multi.c works on: every client, and the database all of
\* them have selected; fault is set when a redisAssert fails or a NULL node is
\* dereferenced
State(cl, database, fault) == [client |-> cl, db |-> database, fault |-> fault]

initClientMultiState == [commands |-> <<>>, count |-> 0]

\* a queue that puts the new command in front of the others
queueMultiCommand_AtHead(cl, cmd) ==
    [cl EXCEPT !.mstate = [commands |-> <<cmd>> \o @.commands, count |-> @.count + 1]]

\* commands[count] = cmd; count++
queueMultiCommand(cl, cmd) ==
    [cl EXCEPT !.mstate = [commands |-> Append(@.commands, cmd), count |-> @.count + 1]]

\* dictFetchValue after its dictFind f: the value, NULL for an absent key
FetchedValue(f) ==
    [d |-> f.d, loc |-> f.loc, he |-> f.he,
     val |-> IF f.he = NULL THEN NULL ELSE f.he[1].val]

dictFetchValue(dd, key) == FetchedValue(dictFind(dd, key))

\* the list that is the value of the entry at loc, changed in place
SetListAt(dd, loc, list) ==
    [dd EXCEPT !.ht[loc.table].table[loc.idx][loc.pos].val = list]

\* the for loop of watchForKey: is key already in the client's own list
AlreadyWatched(cl, key) ==
    \E i \in 1..Len(cl.watched_keys) : cl.watched_keys[i] = [key |-> key, db |-> cl.db]

\* watchForKey after its dictFetchValue f: the client joins the list of the
\* key, created and added to db->watched_keys when the key had none, and the
\* key joins the client's own list
WatchAfterFetch(st, c, key, f) ==
    [st EXCEPT
       !.db.watched_keys = IF f.he = NULL
                           THEN dictAdd(f.d, key, listAddNodeTail(listCreate, c),
                                        dict_can_resize).d
                           ELSE SetListAt(f.d, f.loc, listAddNodeTail(f.val, c)),
       !.client[c].watched_keys = listAddNodeTail(@, [key |-> key, db |-> st.client[c].db])]

watchForKey(st, c, key) ==
    IF AlreadyWatched(st.client[c], key) THEN st
    ELSE WatchAfterFetch(st, c, key, dictFetchValue(st.db.watched_keys, key))

\* a turn that leaves the key in db->watched_keys when its list becomes empty
UnwatchAfterFetch_KeepEmpty(st, c, wk, f) ==
    IF f.he = NULL \/ listSearchKey(f.val, c) = 0
    THEN [st EXCEPT !.fault = TRUE]
    ELSE [st EXCEPT
            !.db.watched_keys =
                SetListAt(f.d, f.loc, listDelNode(f.val, listSearchKey(f.val, c))),
            !.client[c].watched_keys = listDelNode(@, 1)]

\* one turn of the loop of unwatchAllKeys, on the head wk of the client's
\* list, after its dictFetchValue f
UnwatchAfterFetch(st, c, wk, f) ==
    IF f.he = NULL \/ listSearchKey(f.val, c) = 0
    THEN [st EXCEPT !.fault = TRUE]
    ELSE [st EXCEPT
            !.db.watched_keys =
                IF Len(f.val) = 1
                THEN dictGenericDelete(SetListAt(f.d, f.loc, listCreate), wk.key, FALSE).d
                ELSE SetListAt(f.d, f.loc, listDelNode(f.val, listSearchKey(f.val, c))),
            !.client[c].watched_keys = listDelNode(@, 1)]

RECURSIVE unwatchAllKeys(_, _)
unwatchAllKeys(st, c) ==
    IF st.client[c].watched_keys = <<>> \/ st.fault THEN st
    ELSE unwatchAllKeys(
             UnwatchAfterFetch(st, c, st.client[c].watched_keys[1],
                 dictFetchValue(st.db.watched_keys, st.client[c].watched_keys[1].key)),
             c)

\* a touch that marks the first client of the list only
MarkClients_FirstOnly(cl, clients) ==
    [c \in Clients |-> IF clients # <<>> /\ clients[1] = c
                       THEN [cl[c] EXCEPT !.flags = @ \cup {"REDIS_DIRTY_CAS"}]
                       ELSE cl[c]]

\* the loop of touchWatchedKey over the clients list
MarkClients(cl, clients) ==
    [c \in Clients |-> IF listSearchKey(clients, c) # 0
                       THEN [cl[c] EXCEPT !.flags = @ \cup {"REDIS_DIRTY_CAS"}]
                       ELSE cl[c]]

\* touchWatchedKey after its dictFetchValue f
TouchAfterFetch(st, f) ==
    [st EXCEPT !.db.watched_keys = f.d,
               !.client = IF f.he = NULL THEN @ ELSE MarkClients(@, f.val)]

touchWatchedKey(st, key) ==
    IF dictSize(st.db.watched_keys) = 0 THEN st
    ELSE TouchAfterFetch(st, dictFetchValue(st.db.watched_keys, key))

\* a reset that clears the REDIS_MULTI flag alone
ResetMulti_KeepDirty(st, c) ==
    [st EXCEPT !.client[c].mstate = initClientMultiState,
               !.client[c].flags = @ \ {"REDIS_MULTI"}]

\* freeClientMultiState, initClientMultiState and the clearing of both flags
ResetMulti(st, c) ==
    [st EXCEPT !.client[c].mstate = initClientMultiState,
               !.client[c].flags = @ \ {"REDIS_MULTI", "REDIS_DIRTY_CAS"}]

discardTransaction(st, c) == unwatchAllKeys(ResetMulti(st, c), c)

\* the commands execCommand hands to call(), in the order of the calls
RECURSIVE ExecCalls(_, _)
ExecCalls(mstate, j) ==
    IF j >= mstate.count THEN <<>>
    ELSE <<mstate.commands[j + 1]>> \o ExecCalls(mstate, j + 1)

\* watchCommand's loop over its arguments
RECURSIVE WatchAll(_, _, _, _)
WatchAll(st, c, argv, j) ==
    IF j > Len(argv) THEN st
    ELSE WatchAll(watchForKey(st, c, argv[j]), c, argv, j + 1)

\* The record of the last command: the command, its client, the reply and the
\* commands it handed to call(); touched holds the clients one of whose watched
\* keys (by their own watched_keys list) was touched since they last left a
\* transaction or unwatched; queued holds, for each client, the commands queued
\* since its last MULTI; fault tells that an assertion has failed
Hist(op, c, reply, called, touched, queued, fault) ==
    [op |-> op, c |-> c, reply |-> reply, called |-> called, touched |-> touched,
     queued |-> queued, fault |-> fault]

Installed(st) ==
    /\ client' = st.client
    /\ db' = st.db

InMulti(c) == "REDIS_MULTI" \in client[c].flags

MultiCommand(c) ==
    /\ client' = IF InMulti(c) THEN client
                 ELSE [client EXCEPT ![c].flags = @ \cup {"REDIS_MULTI"}]
    /\ hist' = Hist("multi", c, IF InMulti(c) THEN "error" ELSE "ok", <<>>, hist.touched,
                    IF InMulti(c) THEN hist.queued ELSE [hist.queued EXCEPT ![c] = <<>>],
                    hist.fault)
    /\ UNCHANGED <<d, dict_can_resize, iters, abs, last, rnd, server, db, eventLoop, clock, pte>>

\* a command that processCommand queues: it arrives while the client's
\* REDIS_MULTI flag is set and is none of EXEC, DISCARD, MULTI and WATCH
QueueMultiCommand(c, cmd) ==
    /\ InMulti(c)
    /\ client[c].mstate.count < QueueLimit(c)
    /\ client' = [client EXCEPT ![c] = queueMultiCommand(@, cmd)]
    /\ hist' = Hist("queue", c, "queued", <<>>, hist.touched,
                    [hist.queued EXCEPT ![c] = Append(@, cmd)], hist.fault)
    /\ UNCHANGED <<d, dict_can_resize, iters, abs, last, rnd, server, db, eventLoop, clock, pte>>

DiscardCommand(c) ==
    /\ Installed(IF InMulti(c) THEN discardTransaction(State(client, db, hist.fault), c)
                 ELSE State(client, db, hist.fault))
    /\ hist' = Hist("discard", c, IF InMulti(c) THEN "ok" ELSE "error", <<>>,
                    IF InMulti(c) THEN hist.touched \ {c} ELSE hist.touched, hist.queued,
                    IF InMulti(c)
                    THEN discardTransaction(State(client, db, hist.fault), c).fault
                    ELSE hist.fault)
    /\ UNCHANGED <<d, dict_can_resize, iters, abs, last, rnd, server, eventLoop, clock, pte>>

\* execCommand; call() is outside this file: the commands handed to it are
\* recorded, and the keys they touch are touched by TouchWatchedKey steps
ExecCommand(c) ==
    /\ Installed(IF InMulti(c)
                 THEN IF "REDIS_DIRTY_CAS" \in client[c].flags
                      THEN unwatchAllKeys(ResetMulti(State(client, db, hist.fault), c), c)
                      ELSE ResetMulti(unwatchAllKeys(State(client, db, hist.fault), c), c)
                 ELSE State(client, db, hist.fault))
    /\ hist' = Hist("exec", c,
                    IF ~InMulti(c) THEN "error"
                    ELSE IF "REDIS_DIRTY_CAS" \in client[c].flags THEN "nullmultibulk"
                    ELSE "multibulk",
                    IF InMulti(c) /\ "REDIS_DIRTY_CAS" \notin client[c].flags
                    THEN ExecCalls(client[c].mstate, 0) ELSE <<>>,
                    IF InMulti(c) THEN hist.touched \ {c} ELSE hist.touched, hist.queued,
                    IF InMulti(c)
                    THEN unwatchAllKeys(State(client, db, hist.fault), c).fault
                    ELSE hist.fault)
    /\ UNCHANGED <<d, dict_can_resize, iters, abs, last, rnd, server, eventLoop, clock, pte>>

WatchCommand(c, argv) ==
    /\ Installed(IF InMulti(c) THEN State(client, db, hist.fault)
                 ELSE WatchAll(State(client, db, hist.fault), c, argv, 1))
    /\ hist' = Hist("watch", c, IF InMulti(c) THEN "error" ELSE "ok", <<>>, hist.touched,
                    hist.queued, hist.fault)
    /\ UNCHANGED <<d, dict_can_resize, iters, abs, last, rnd, server, eventLoop, clock, pte>>

UnwatchCommand(c) ==
    /\ Installed([unwatchAllKeys(State(client, db, hist.fault), c)
                     EXCEPT !.client[c].flags = @ \ {"REDIS_DIRTY_CAS"}])
    /\ hist' = Hist("unwatch", c, "ok", <<>>, hist.touched \ {c}, hist.queued,
                    unwatchAllKeys(State(client, db, hist.fault), c).fault)
    /\ UNCHANGED <<d, dict_can_resize, iters, abs, last, rnd, server, eventLoop, clock, pte>>

\* touchWatchedKey(db, key), called for a key that is being modified
TouchWatchedKey(key) ==
    /\ Installed(touchWatchedKey(State(client, db, hist.fault), key))
    /\ hist' = Hist("touch", key, "none", <<>>,
                    hist.touched \cup {c \in Clients : AlreadyWatched(client[c], key)},
                    hist.queued, hist.fault)
    /\ UNCHANGED <<d, dict_can_resize, iters, abs, last, rnd, server, eventLoop, clock, pte>>

(* ------------------------------- pubsub ------------------------------- *)

\* the channels: enough for a client's table of 4 slots to grow to 8
NumChannels == 6
Channels == 1..NumChannels
\* the clients that subscribe: the first to any channel, the others to
\* channel 1, whose server list they share with the first
Subscribable(c) == IF c = 1 THEN Channels ELSE {1}

\* the structures pubsub.c works on: every client and the server; fault is
\* set when a redisAssert fails or a freed entry is read
PubsubState(cl, srv, fault) == [client |-> cl, server |-> srv, fault |-> fault]

\* pubsubSubscribeChannel after its dictFind f in server.pubsub_channels
JoinChannel(st, c, channel, f) ==
    [st EXCEPT !.server.pubsub_channels =
                   IF f.he = NULL
                   THEN dictAdd(f.d, channel, listAddNodeTail(listCreate, c),
                                dict_can_resize).d
                   ELSE SetListAt(f.d, f.loc, listAddNodeTail(f.he[1].val, c))]

\* pubsubSubscribeChannel after its dictAdd a to c->pubsub_channels
SubscribeAfterAdd(st, c, channel, a) ==
    IF a.ret = "DICT_OK"
    THEN [st |-> JoinChannel([st EXCEPT !.client[c].pubsub_channels = a.d], c, channel,
                             dictFind(st.server.pubsub_channels, channel)),
          retval |-> 1]
    ELSE [st |-> [st EXCEPT !.client[c].pubsub_channels = a.d], retval |-> 0]

pubsubSubscribeChannel(st, c, channel) ==
    SubscribeAfterAdd(st, c, channel,
                      dictAdd(st.client[c].pubsub_channels, channel, NULL, dict_can_resize))

\* a leave that keeps the channel in server.pubsub_channels when its list
\* becomes empty
LeaveChannel_KeepEmpty(st, c, channel, f) ==
    IF f.he = NULL \/ listSearchKey(f.he[1].val, c) = 0
    THEN [st EXCEPT !.fault = TRUE]
    ELSE [st EXCEPT !.server.pubsub_channels =
                        SetListAt(f.d, f.loc,
                            listDelNode(f.he[1].val, listSearchKey(f.he[1].val, c)))]

\* pubsubUnsubscribeChannel after its dictFind f in server.pubsub_channels
LeaveChannel(st, c, channel, f) ==
    IF f.he = NULL \/ listSearchKey(f.he[1].val, c) = 0
    THEN [st EXCEPT !.fault = TRUE]
    ELSE [st EXCEPT !.server.pubsub_channels =
                        IF Len(f.he[1].val) = 1
                        THEN dictGenericDelete(SetListAt(f.d, f.loc, listCreate),
                                               channel, FALSE).d
                        ELSE SetListAt(f.d, f.loc,
                                 listDelNode(f.he[1].val, listSearchKey(f.he[1].val, c)))]

\* pubsubUnsubscribeChannel after its dictDelete del on c->pubsub_channels
UnsubscribeAfterDelete(st, c, channel, del) ==
    IF del.ret = "DICT_OK"
    THEN [st |-> LeaveChannel([st EXCEPT !.client[c].pubsub_channels = del.d], c, channel,
                              dictFind(st.server.pubsub_channels, channel)),
          retval |-> 1]
    ELSE [st |-> [st EXCEPT !.client[c].pubsub_channels = del.d], retval |-> 0]

pubsubUnsubscribeChannel(st, c, channel) ==
    UnsubscribeAfterDelete(st, c, channel,
                           dictGenericDelete(st.client[c].pubsub_channels, channel, FALSE))

\* a scan of the client's channels with an iterator that is not safe
ChannelIterator_Unsafe == dictGetIterator

\* the iterator pubsubUnsubscribeAllChannels scans c->pubsub_channels with
ChannelIterator == dictGetSafeIterator

\* the iterator it after the entry with this key was deleted under it
AfterDelete(it, key) == Deleted([i \in Iters |-> it], key)[CHOOSE i \in Iters : TRUE]

\* The while loop of pubsubUnsubscribeAllChannels.  ScanFrom is the loop from
\* its dictNext call on iterator it, with count channels unsubscribed so far;
\* ScanReturned is what follows a dictNext call that left the iterator as it2.
\* Both give the set of outcomes [st, count]: one, unless dictNext reads a
\* freed entry.
RECURSIVE ScanFrom(_, _, _, _)
ScanUnsubscribed(u, c, it2, count) ==
    ScanFrom(u.st, c, AfterDelete(it2, it2.entry[1]), count + u.retval)

ScanReturned(st, c, it2, count) ==
    IF it2.done
    THEN {[st |-> [st EXCEPT !.client[c].pubsub_channels = dictReleaseIterator(@, it2)],
           count |-> count]}
    ELSE IF it2.retFreed THEN {[st |-> [st EXCEPT !.fault = TRUE], count |-> count]}
    ELSE ScanUnsubscribed(pubsubUnsubscribeChannel(st, c, it2.entry[1]), c, it2, count)

ScanFrom(st, c, it, count) ==
    UNION {ScanReturned([st EXCEPT !.client[c].pubsub_channels = dictNextCount(@, it)],
                        c, it2, count) :
              it2 \in dictNext(st.client[c].pubsub_channels, it)}

pubsubUnsubscribeAllChannels(st, c) == ScanFrom(st, c, ChannelIterator, 0)

Published(r, op, c) ==
    /\ client' = r.st.client
    /\ server' = r.st.server
    /\ hist' = Hist(op, c, r.retval, <<>>, hist.touched, hist.queued, r.st.fault)

PubsubSubscribeChannel(c, channel) ==
    /\ Published(pubsubSubscribeChannel(PubsubState(client, server, hist.fault), c, channel),
                 "subscribe", c)
    /\ UNCHANGED <<d, dict_can_resize, iters, abs, last, rnd, db, eventLoop, clock, pte>>

PubsubUnsubscribeChannel(c, channel) ==
    /\ Published(pubsubUnsubscribeChannel(PubsubState(client, server, hist.fault), c, channel),
                 "unsubscribe", c)
    /\ UNCHANGED <<d, dict_can_resize, iters, abs, last, rnd, db, eventLoop, clock, pte>>

PubsubUnsubscribeAllChannels(c) ==
    /\ \E r \in pubsubUnsubscribeAllChannels(PubsubState(client, server, hist.fault), c) :
          Published([st |-> r.st, retval |-> r.count], "unsubscribeall", c)
    /\ UNCHANGED <<d, dict_can_resize, iters, abs, last, rnd, db, eventLoop, clock, pte>>

(* ------------------------------ patterns ------------------------------ *)

\* the channels published to and the patterns subscribed to: a channel is
\* named by the decimal string of its number
NumPublishChannels == 2
PublishChannels == 1..NumPublishChannels
Patterns == {"*", "1"}

\* the glob match of a pattern against the name of a channel, for the
\* patterns above: "*" matches every name, a name matches itself
stringmatchlen(pattern, channel) == pattern = "*" \/ pattern = ToString(channel)

pubsubPattern(c, pattern) == [client |-> c, pattern |-> pattern]

\* c->pubsub_patterns is searched by the equality of the pattern strings,
\* server.pubsub_patterns by listMatchPubsubPattern: same client, equal strings
pubsubSubscribePattern(st, c, pattern) ==
    IF listSearchKey(st.client[c].pubsub_patterns, pattern) = 0
    THEN [st |-> [st EXCEPT
                    !.client[c].pubsub_patterns = listAddNodeTail(@, pattern),
                    !.server.pubsub_patterns = listAddNodeTail(@, pubsubPattern(c, pattern))],
          retval |-> 1]
    ELSE [st |-> st, retval |-> 0]

\* the removal from server.pubsub_patterns of the node listSearchKey gave;
\* listDelNode reads the node, so a NULL one is a fault
DelServerPattern(st, ln) ==
    IF ln = 0 THEN [st EXCEPT !.fault = TRUE]
    ELSE [st EXCEPT !.server.pubsub_patterns = listDelNode(@, ln)]

pubsubUnsubscribePattern(st, c, pattern) ==
    IF listSearchKey(st.client[c].pubsub_patterns, pattern) # 0
    THEN [st |-> DelServerPattern(
                     [st EXCEPT !.client[c].pubsub_patterns =
                                    listDelNode(@, listSearchKey(@, pattern))],
                     listSearchKey(st.server.pubsub_patterns, pubsubPattern(c, pattern))),
          retval |-> 1]
    ELSE [st |-> st, retval |-> 0]

\* The while loop of pubsubUnsubscribeAllPatterns from the node at position
\* ln of c->pubsub_patterns, with count patterns unsubscribed so far.  listNext
\* has saved the successor of the node before the call that removes a node:
\* it is at the same position afterwards when the node removed was at or
\* before ln, one further otherwise.
RECURSIVE UnsubscribePatternsFrom(_, _, _, _)
UnsubscribedPattern(u, c, ln, was, count) ==
    UnsubscribePatternsFrom(u.st, c,
        IF Len(u.st.client[c].pubsub_patterns) < was THEN ln ELSE ln + 1,
        count + u.retval)

UnsubscribePatternsFrom(st, c, ln, count) ==
    IF ln > Len(st.client[c].pubsub_patterns) \/ st.fault
    THEN [st |-> st, retval |-> count]
    ELSE UnsubscribedPattern(
             pubsubUnsubscribePattern(st, c, st.client[c].pubsub_patterns[ln]),
             c, ln, Len(st.client[c].pubsub_patterns), count)

pubsubUnsubscribeAllPatterns(st, c) == UnsubscribePatternsFrom(st, c, 1, 0)

\* a reply queued for client c: a message of a channel, or a pmessage of a
\* channel with the pattern that matched it
Message(c, channel) ==
    [client |-> c, kind |-> "message", pattern |-> "", channel |-> channel]

PMessage(c, pattern, channel) ==
    [client |-> c, kind |-> "pmessage", pattern |-> pattern, channel |-> channel]

\* the first loop of pubsubPublishMessage, over the clients list of the channel
RECURSIVE ChannelReplies(_, _, _)
ChannelReplies(list, channel, i) ==
    IF i > Len(list) THEN <<>>
    ELSE <<Message(list[i], channel)>> \o ChannelReplies(list, channel, i + 1)

\* a loop that stops after the first pattern that matches
RECURSIVE PatternReplies_FirstMatch(_, _, _)
PatternReplies_FirstMatch(patterns, channel, i) ==
    IF i > Len(patterns) THEN <<>>
    ELSE IF stringmatchlen(patterns[i].pattern, channel)
         THEN <<PMessage(patterns[i].client, patterns[i].pattern, channel)>>
    ELSE PatternReplies_FirstMatch(patterns, channel, i + 1)

\* the second loop, over server.pubsub_patterns
RECURSIVE PatternReplies(_, _, _)
PatternReplies(patterns, channel, i) ==
    IF i > Len(patterns) THEN <<>>
    ELSE IF stringmatchlen(patterns[i].pattern, channel)
         THEN <<PMessage(patterns[i].client, patterns[i].pattern, channel)>>
              \o PatternReplies(patterns, channel, i + 1)
    ELSE PatternReplies(patterns, channel, i + 1)

\* pubsubPublishMessage after its dictFind f in server.pubsub_channels: the
\* replies queued, in order; receivers counts them one by one
PublishAfterFind(st, channel, f) ==
    [st |-> [st EXCEPT !.server.pubsub_channels = f.d],
     replies |-> (IF f.he = NULL THEN <<>> ELSE ChannelReplies(f.he[1].val, channel, 1))
                 \o PatternReplies(st.server.pubsub_patterns, channel, 1)]

pubsubPublishMessage(st, channel) ==
    PublishAfterFind(st, channel, dictFind(st.server.pubsub_channels, channel))

PubsubSubscribePattern(c, pattern) ==
    /\ Published(pubsubSubscribePattern(PubsubState(client, server, hist.fault), c, pattern),
                 "psubscribe", c)
    /\ UNCHANGED <<d, dict_can_resize, iters, abs, last, rnd, db, eventLoop, clock, pte>>

PubsubUnsubscribePattern(c, pattern) ==
    /\ Published(pubsubUnsubscribePattern(PubsubState(client, server, hist.fault), c, pattern),
                 "punsubscribe", c)
    /\ UNCHANGED <<d, dict_can_resize, iters, abs, last, rnd, db, eventLoop, clock, pte>>

PubsubUnsubscribeAllPatterns(c) ==
    /\ Published(pubsubUnsubscribeAllPatterns(PubsubState(client, server, hist.fault), c),
                 "punsubscribeall", c)
    /\ UNCHANGED <<d, dict_can_resize, iters, abs, last, rnd, db, eventLoop, clock, pte>>

\* the record of a publish: the channel, the receivers returned and the
\* replies queued
PubsubPublishMessage(channel) ==
    /\ server' = pubsubPublishMessage(PubsubState(client, server, hist.fault), channel).st.server
    /\ hist' = Hist("publish", channel,
                    Len(pubsubPublishMessage(PubsubState(client, server, hist.fault),
                                             channel).replies),
                    pubsubPublishMessage(PubsubState(client, server, hist.fault),
                                         channel).replies,
                    hist.touched, hist.queued, hist.fault)
    /\ UNCHANGED <<d, dict_can_resize, iters, abs, last, rnd, db, client, eventLoop, clock, pte>>

(* ------------------------------- slowlog ------------------------------ *)

\* the largest entry id given out, and the values the two configuration
\* directives and the duration of a command take
MaxSlowlogId == 4
SlowerThans == {-1, 0, 2}
MaxLens == {0, 1, 2}
Durations == {1, 3}

\* se->duration and se->id of a new entry (its arguments and time are left
\* out), and the server with the id counter moved on
slowlogCreateEntry(srv, duration) ==
    [se |-> [id |-> srv.slowlog_entry_id, duration |-> duration],
     server |-> [srv EXCEPT !.slowlog_entry_id = @ + 1]]

\* listAddNodeHead(server.slowlog, se) for the entry just created
PushCreated(r) == [r.server EXCEPT !.slowlog = listAddNodeHead(@, r.se)]

\* while (listLength(server.slowlog) > server.slowlog_max_len) delete the last
RECURSIVE TrimSlowlog(_)
TrimSlowlog(srv) ==
    IF Len(srv.slowlog) > srv.slowlog_max_len
    THEN TrimSlowlog([srv EXCEPT !.slowlog = listDelNode(@, Len(@))])
    ELSE srv

slowlogPushEntryIfNeeded(srv, duration) ==
    IF srv.slowlog_log_slower_than < 0 THEN srv
    ELSE TrimSlowlog(IF duration >= srv.slowlog_log_slower_than
                     THEN PushCreated(slowlogCreateEntry(srv, duration))
                     ELSE srv)

RECURSIVE slowlogReset(_)
slowlogReset(srv) ==
    IF Len(srv.slowlog) > 0
    THEN slowlogReset([srv EXCEPT !.slowlog = listDelNode(@, Len(@))])
    ELSE srv

\* the call made after a command that took duration microseconds
SlowlogPushEntryIfNeeded(duration) ==
    /\ server.slowlog_entry_id < MaxSlowlogId
    /\ server' = slowlogPushEntryIfNeeded(server, duration)
    /\ hist' = Hist("slowlogpush", 0, "none", <<>>, hist.touched, hist.queued, hist.fault)
    /\ UNCHANGED <<d, dict_can_resize, iters, abs, last, rnd, db, client, eventLoop, clock, pte>>

\* SLOWLOG RESET
SlowlogReset ==
    /\ server' = slowlogReset(server)
    /\ hist' = Hist("slowlogreset", 0, "ok", <<>>, hist.touched, hist.queued, hist.fault)
    /\ UNCHANGED <<d, dict_can_resize, iters, abs, last, rnd, db, client, eventLoop, clock, pte>>

\* CONFIG SET slowlog-log-slower-than and CONFIG SET slowlog-max-len: the
\* fields are assigned, the log is not looked at
ConfigSetSlowlog(slower_than, max_len) ==
    /\ server' = [server EXCEPT !.slowlog_log_slower_than = slower_than,
                                !.slowlog_max_len = max_len]
    /\ hist' = Hist("configset", 0, "ok", <<>>, hist.touched, hist.queued, hist.fault)
    /\ UNCHANGED <<d, dict_can_resize, iters, abs, last, rnd, db, client, eventLoop, clock, pte>>

(* --------------------------- specifications --------------------------- *)

\* the table's operations on one table with no iterator open
Next ==
    \/ \E k \in Keys, v \in Vals : DictAdd(k, v)
    \/ \E k \in Keys, v \in Vals : DictReplace(k, v)
    \/ \E k \in Keys, nofree \in BOOLEAN : DictDelete(k, nofree)
    \/ \E k \in Keys : DictFind(k)
    \/ \E n \in RehashNs : DictRehash(n)
    \/ \E k \in RehashNs : DictRehashMilliseconds(k)
    \/ \E size \in ExpandSizes : DictExpand(size)
    \/ DictResize
    \/ DictGetRandomKey
    \/ DictEmpty
    \/ dictEnableResize
    \/ dictDisableResize

Spec == Init /\ [][Next]_vars

\* the same operations interleaved with the calls of iterators
NextIter ==
    \/ \E k \in IterKeys : DictAdd(k, 1)
    \/ \E k \in IterKeys : DictReplace(k, 1)
    \/ \E k \in IterKeys, nofree \in BOOLEAN : DictDelete(k, nofree)
    \/ \E k \in IterKeys : DictFind(k)
    \/ \E n \in RehashNs : DictRehash(n)
    \/ \E k \in RehashNs : DictRehashMilliseconds(k)
    \/ \E size \in ExpandSizes : DictExpand(size)
    \/ DictGetRandomKey
    \/ \E i \in Iters, safe \in BOOLEAN : GetIterator(i, safe)
    \/ \E i \in Iters : DictNext(i)
    \/ \E i \in Iters : ReleaseIterator(i)

SpecIter == Init /\ [][NextIter]_vars

\* add, find and delete calls between dictRehash calls that keep coming
NextLive ==
    \/ \E k \in IterKeys : DictAdd(k, 1)
    \/ \E k \in IterKeys : DictDelete(k, FALSE)
    \/ \E k \in IterKeys : DictFind(k)
    \/ \E n \in RehashNs : DictRehash(n)
    \/ \E size \in ExpandSizes : DictExpand(size)

SpecLive == Init /\ [][NextLive]_vars /\ WF_vars(\E n \in RehashNs : DictRehash(n))

\* insertions only, the resize gate left enabled
NextInsert == \E k \in InsertKeys : DictAdd(k, 1)

SpecInsert == Init /\ [][NextInsert]_vars

\* insertions of fresh keys in increasing order, attempts on the present
\* key 0, deletions of the newest key and finds, with the resize gate toggled
\* at any point
NextGate ==
    \/ \E k \in GateKeys \cap {0, dictSize(d)} : DictAdd(k, 1)
    \/ \E k \in GateKeys \cap {dictSize(d) - 1} : DictDelete(k, FALSE)
    \/ DictFind(0)
    \/ dictEnableResize
    \/ dictDisableResize

SpecGate == Init /\ [][NextGate]_vars

\* insertions and single rehash steps
NextDrain ==
    \/ \E k \in DrainKeys : DictAdd(k, 1)
    \/ DictRehash(1)

SpecDrain == Init /\ [][NextDrain]_vars

\* the commands of multi.c from two clients, and the keys touched between them
NextMulti ==
    \/ \E c \in Clients : MultiCommand(c)
    \/ \E c \in Clients, cmd \in Cmds : QueueMultiCommand(c, cmd)
    \/ \E c \in Clients : DiscardCommand(c)
    \/ \E c \in Clients : ExecCommand(c)
    \/ \E c \in Clients, argv \in WatchArgs : WatchCommand(c, argv)
    \/ \E c \in Clients : UnwatchCommand(c)
    \/ \E key \in WatchKeys : TouchWatchedKey(key)

SpecMulti == Init /\ [][NextMulti]_vars

\* the channel subscriptions of pubsub.c from two clients
NextPubsub ==
    \/ \E c \in Clients : \E channel \in Subscribable(c) : PubsubSubscribeChannel(c, channel)
    \/ \E c \in Clients : \E channel \in Subscribable(c) : PubsubUnsubscribeChannel(c, channel)
    \/ \E c \in Clients : PubsubUnsubscribeAllChannels(c)

SpecPubsub == Init /\ [][NextPubsub]_vars

\* channel and pattern subscriptions of two clients, and messages published
NextPublish ==
    \/ \E c \in Clients : \E channel \in Subscribable(c) \cap PublishChannels :
          PubsubSubscribeChannel(c, channel)
    \/ \E c \in Clients : \E channel \in Subscribable(c) \cap PublishChannels :
          PubsubUnsubscribeChannel(c, channel)
    \/ \E c \in Clients, pattern \in Patterns : PubsubSubscribePattern(c, pattern)
    \/ \E c \in Clients, pattern \in Patterns : PubsubUnsubscribePattern(c, pattern)
    \/ \E c \in Clients : PubsubUnsubscribeAllPatterns(c)
    \/ \E channel \in PublishChannels : PubsubPublishMessage(channel)

SpecPublish == Init /\ [][NextPublish]_vars

\* the slow log between changes of its two configuration directives
NextSlowlog ==
    \/ \E duration \in Durations : SlowlogPushEntryIfNeeded(duration)
    \/ SlowlogReset
    \/ \E slower_than \in SlowerThans, max_len \in MaxLens :
          ConfigSetSlowlog(slower_than, max_len)

SpecSlowlog == Init /\ [][NextSlowlog]_vars

\* dictGetRandomKey as a loop of draws between calls on a table that a safe
\* iterator can hold in the middle of a rehash; no other call runs while the
\* loop does, and the random source is fair: a draw that can land on a chain
\* is not put off for ever
NextSample ==
    \/ \E k \in SampleKeys : rnd.pc = "idle" /\ DictAdd(k, 1)
    \/ \E k \in SampleKeys : rnd.pc = "idle" /\ DictDelete(k, FALSE)
    \/ rnd.pc = "idle" /\ DictRehash(1)
    \/ \E size \in ExpandSizes : rnd.pc = "idle" /\ DictExpand(size)
    \/ \E i \in Iters : rnd.pc = "idle" /\ GetIterator(i, TRUE)
    \/ \E i \in Iters : rnd.pc = "idle" /\ DictNext(i)
    \/ \E i \in Iters : rnd.pc = "idle" /\ ReleaseIterator(i)
    \/ SampleStart
    \/ \E h \in RandomDraws(d) : SampleMiss(h)
    \/ \E h \in RandomDraws(d) : SampleHit(h)

SpecSample == Init /\ [][NextSample]_vars /\ WF_vars(\E h \in RandomDraws(d) : SampleHit(h))

\* every call that reads or moves the rehash cursor, with a safe iterator that
\* can be open when a rehash starts and while it runs
NextAssert ==
    \/ \E k \in IterKeys : DictAdd(k, 1)
    \/ \E k \in IterKeys : DictReplace(k, 1)
    \/ \E k \in IterKeys : DictDelete(k, FALSE)
    \/ \E k \in IterKeys : DictFind(k)
    \/ \E n \in RehashNs : DictRehash(n)
    \/ \E size \in ExpandSizes : DictExpand(size)
    \/ DictResize
    \/ \E i \in Iters : GetIterator(i, TRUE)
    \/ \E i \in Iters : DictNext(i)
    \/ \E i \in Iters : ReleaseIterator(i)

SpecAssert == Init /\ [][NextAssert]_vars

\* iterators of both kinds opened, advanced and released between insertions,
\* deletions and calls that clear the table
NextClear ==
    \/ \E k \in SampleKeys : DictAdd(k, 1)
    \/ \E k \in SampleKeys : DictDelete(k, FALSE)
    \/ DictEmpty
    \/ \E i \in Iters, safe \in BOOLEAN : GetIterator(i, safe)
    \/ \E i \in Iters : DictNext(i)
    \/ \E i \in Iters : ReleaseIterator(i)

SpecClear == Init /\ [][NextClear]_vars

(* ------------------------- ae.c: time event calls ------------------------- *)

\* what handlers do: delete at most one event, create at most one
Handlers(el) ==
    [deleted : {{}} \cup {{el.timeEventHead[p].id} : p \in 1..Len(el.timeEventHead)},
     created : {<<>>} \cup
               {<<ms>> : ms \in {m \in Milliseconds : el.timeEventNextId <= MaxTimeEventId}},
     retval : Retvals,
     reused : BOOLEAN]

AeCreateTimeEvent(milliseconds) ==
    /\ pte.pc = "idle"
    /\ eventLoop.timeEventNextId <= MaxTimeEventId
    /\ eventLoop' = aeCreateTimeEvent(eventLoop, milliseconds, clock).el
    /\ UNCHANGED <<d, dict_can_resize, iters, abs, last, rnd, server, db, client, hist,
                   clock, pte>>

AeDeleteTimeEvent(id) ==
    /\ pte.pc = "idle"
    /\ eventLoop' = aeDeleteTimeEvent(eventLoop, id).el
    /\ UNCHANGED <<d, dict_can_resize, iters, abs, last, rnd, server, db, client, hist,
                   clock, pte>>

\* time passes, between calls and between two readings of the clock in a call
ClockTick(t) ==
    /\ t > clock
    /\ clock' = t
    /\ UNCHANGED <<d, dict_can_resize, iters, abs, last, rnd, server, db, client, hist,
                   eventLoop, pte>>

ProcessTimeEvents ==
    /\ pte.pc = "idle"
    /\ pte' = StartCall(eventLoop)
    /\ UNCHANGED <<d, dict_can_resize, iters, abs, last, rnd, server, db, client, hist,
                   eventLoop, clock>>

ProcessTimeEventsTurn(h) ==
    /\ pte.pc = "loop"
    /\ pte.te # 0
    /\ pte.processed < MaxProcessed
    /\ eventLoop' = processTimeEventsTurn(eventLoop, pte, h, clock).el
    /\ pte' = processTimeEventsTurn(eventLoop, pte, h, clock).f
    /\ UNCHANGED <<d, dict_can_resize, iters, abs, last, rnd, server, db, client, hist,
                   clock>>

ProcessTimeEventsReturn ==
    /\ pte.pc = "loop"
    /\ pte.te = 0
    /\ pte' = [pte EXCEPT !.pc = "idle"]
    /\ UNCHANGED <<d, dict_can_resize, iters, abs, last, rnd, server, db, client, hist,
                   eventLoop, clock>>

\* time events created, deleted and processed while time passes
NextTime ==
    \/ \E ms \in Milliseconds : AeCreateTimeEvent(ms)
    \/ \E id \in 0..MaxTimeEventId : AeDeleteTimeEvent(id)
    \/ \E t \in ClockInstants : ClockTick(t)
    \/ ProcessTimeEvents
    \/ \E h \in Handlers(eventLoop) : ProcessTimeEventsTurn(h)
    \/ ProcessTimeEventsReturn

SpecTime == Init /\ [][NextTime]_vars

(* ------------------------------- claims ------------------------------- *)

\* the (key, value) pairs stored in a table, and in the dictionary
TableContents(ht) ==
    UNION {{<<ht.table[i][p].key, ht.table[i][p].val>> : p \in 1..Len(ht.table[i])} :
           i \in DOMAIN ht.table}

Contents(dd) == TableContents(dd.ht[0]) \cup TableContents(dd.ht[1])

AbsContents == {<<k, abs[k]>> : k \in DOMAIN abs}

\* C1: after any sequence of add, replace, delete, find, rehash, expand and
\* resize calls, find(k) returns the entry of k holding the value most recently
\* stored for k exactly when k was added and not deleted since, and NULL
\* otherwise, whichever table holds k.
C1_FindReturnsLastStored ==
    last.op = "find" =>
        last.he = (IF last.key \in DOMAIN abs THEN <<Entry(last.key, abs[last.key])>> ELSE NULL)

\* a find has returned an entry that lives in ht[1] while ht[0] still holds
\* entries, and another find has to miss
C1_Witness ==
    /\ last.op = "find" /\ last.he # NULL
    /\ dictIsRehashing(d)
    /\ last.he[1].key \in TableKeys(d.ht[1])
    /\ last.he[1].val = 2
    /\ TableKeys(d.ht[0]) # {}
    /\ DOMAIN abs # Keys

SeqRange(q) == {q[i] : i \in 1..Len(q)}

\* C2: in any reachable state, stable or rehashing, a scan with a safe iterator
\* from dictGetSafeIterator to the NULL of dictNext, with no other operation
\* in between, returns every key of the table exactly once and no other key.
C2_SafeScanComplete ==
    \A i \in Iters :
        (iters[i].live /\ iters[i].safe /\ iters[i].done /\ iters[i].scan = "alone")
            => /\ SeqRange(iters[i].seen) = DOMAIN abs
               /\ Len(iters[i].seen) = Cardinality(DOMAIN abs)

\* an undisturbed safe scan has ended on a table caught in the middle of a
\* rehash, with entries in both tables
C2_Witness ==
    \E i \in Iters :
        /\ iters[i].live /\ iters[i].safe /\ iters[i].done /\ iters[i].scan = "alone"
        /\ dictIsRehashing(d)
        /\ TableKeys(d.ht[0]) # {} /\ TableKeys(d.ht[1]) # {}
        /\ Len(iters[i].seen) = Cardinality(IterKeys)

\* the table a key is linked in
Generation(dd, k) == IF k \in TableKeys(dd.ht[0]) THEN 0 ELSE 1

\* C3: while the safe-iterator count is nonzero, no add, replace, find, delete
\* or random-key call moves an entry from one table to the other, advances the
\* cursor or completes the rehash, and the call still works on whichever table
\* holds the key: find returns the entry exactly for a present key, add is
\* refused exactly for a present key, delete succeeds exactly for a present key.
C3_NoStepWhileIterating ==
    [][(d.iterators # 0 /\ last'.op \in {"add", "replace", "find", "delete", "random"}) =>
          /\ TableKeys(d.ht[0]) \cap TableKeys(d'.ht[1]) = {}
          /\ TableKeys(d.ht[1]) \cap TableKeys(d'.ht[0]) = {}
          /\ dictIsRehashing(d) => d'.rehashidx = d.rehashidx
          /\ Contents(d') = AbsContents'
          /\ last'.op = "find" => (last'.he # NULL <=> last'.key \in LinkedKeys(d))
          /\ last'.op = "add" => (last'.ret = "DICT_OK" <=> last'.key \notin LinkedKeys(d))
          /\ last'.op = "delete" => (last'.ret = "DICT_OK" <=> last'.key \in LinkedKeys(d))
          /\ last'.op = "replace" => <<last'.key, last'.log[1][2]>> \in Contents(d')]_vars

\* a table operation has run during a rehash with a safe iterator open and
\* entries waiting in ht[0]
C3_Witness ==
    /\ d.iterators # 0
    /\ dictIsRehashing(d)
    /\ d.rehashidx > 0
    /\ TableKeys(d.ht[0]) # {} /\ TableKeys(d.ht[1]) # {}
    /\ last.op \in {"add", "replace", "find", "delete", "random"}
    /\ \E i \in Iters : iters[i].live /\ iters[i].safe /\ iters[i].index # -1

\* C4: from any state in which the table is rehashing, if dictRehash with
\* n >= 1 keeps being called, the table eventually is stable again
\* (rehashidx = -1), whatever add, find and delete calls run in between.
C4_RehashTerminates == dictIsRehashing(d) ~> ~dictIsRehashing(d)

\* a dictRehash call that started inside a rehash has swapped the tables and
\* left the table stable, all its keys in the table that was ht[1]
C4_Witness ==
    /\ last.op = "rehash" /\ last.ret = "0" /\ last.log # <<>>
    /\ last.log[1][2] > 0
    /\ ~dictIsRehashing(d)
    /\ d.ht[0].size = MaxExpand
    /\ TableKeys(d.ht[0]) = IterKeys

\* C5: after any sequence of insertions with the resize gate enabled, whenever
\* the table is at rest (not rehashing) ht[0].used <= ht[0].size.
C5_LoadAtMostOneAtRest ==
    ~dictIsRehashing(d) => d.ht[0].used <= d.ht[0].size

\* an insertion has completed a rehash and left the table at rest and full
C5_Witness ==
    /\ last.op = "add" /\ last.ret = "DICT_OK"
    /\ ~dictIsRehashing(d)
    /\ d.ht[0].size = 2 * DICT_HT_INITIAL_SIZE
    /\ d.ht[0].used = d.ht[0].size

\* C6: dictAdd of a key that is linked in ht[0] or in ht[1] returns DICT_ERR
\* and leaves the keys, every stored value and the entry count as they were,
\* whether the table is stable or rehashing.
C6_AddPresentRejected ==
    [][(last'.op = "add" /\ last'.key \in LinkedKeys(d)) =>
          /\ last'.ret = "DICT_ERR"
          /\ Contents(d') = Contents(d)
          /\ dictSize(d') = dictSize(d)]_vars

\* an add was refused for a key that lives in ht[1] while ht[0] holds others
C6_Witness ==
    /\ last.op = "add" /\ last.ret = "DICT_ERR"
    /\ dictIsRehashing(d)
    /\ last.key \in TableKeys(d.ht[1])
    /\ TableKeys(d.ht[0]) # {}

\* the used counter of table t once the key is gone from the table that held
\* it after the amortized step of the call
UsedAfterDelete(dd, key, t) ==
    IF Generation(dd, key) = t THEN dd.ht[t].used - 1 ELSE dd.ht[t].used

\* C7: dictDelete and dictDeleteNoFree return DICT_OK exactly when the key is
\* linked in ht[0] or ht[1]; then exactly that key's entry is gone, the used
\* count of the table that held it is one less, the other table's count and
\* every other key and value are as they were; on failure keys and values are
\* unchanged.
C7_DeleteExactlyTheKey ==
    [][last'.op = "delete" =>
          /\ last'.ret = "DICT_OK" <=> last'.key \in LinkedKeys(d)
          /\ last'.ret = "DICT_OK" =>
                /\ Contents(d') = {c \in Contents(d) : c[1] # last'.key}
                /\ Cardinality(Contents(d')) = Cardinality(Contents(d)) - 1
                /\ \A t \in {0, 1} :
                      d'.ht[t].used = UsedAfterDelete(AmortizedStep(d), last'.key, t)
                /\ dictSize(d') = dictSize(d) - 1
          /\ last'.ret # "DICT_OK" =>
                /\ Contents(d') = Contents(d)
                /\ dictSize(d') = dictSize(d)]_vars

\* a delete has unlinked a key whose slot of ht[0] had already been migrated,
\* so from ht[1], while ht[0] still holds entries
C7_Witness ==
    /\ last.op = "delete" /\ last.ret = "DICT_OK" /\ last.log # <<>>
    /\ dictIsRehashing(d)
    /\ d.rehashidx > BitAnd(dictHashKey(last.key), d.ht[0].sizemask)
    /\ TableKeys(d.ht[0]) # {} /\ TableKeys(d.ht[1]) # {}

\* C8: dictReplace returns 1 exactly when the key was absent and 0 when it
\* was there; afterwards dictFind gives the new value; the entry count grows by
\* one only on an insert; on an overwrite the old value is destroyed exactly
\* once, after the new value is installed; an insert destroys nothing.
C8_ReplaceUpserts ==
    [][last'.op = "replace" =>
          /\ last'.ret = (IF last'.key \in LinkedKeys(d) THEN "0" ELSE "1")
          /\ dictFind(d', last'.key).he = <<Entry(last'.key, abs'[last'.key])>>
          /\ dictSize(d') = dictSize(d) + (IF last'.ret = "1" THEN 1 ELSE 0)
          /\ last'.log = IF last'.ret = "1"
                         THEN << <<"setval", abs'[last'.key]>> >>
                         ELSE << <<"setval", abs'[last'.key]>>,
                                 <<"freeval", abs[last'.key]>> >>]_vars

\* a replace has overwritten, with a different value, a key living in ht[1]
C8_Witness ==
    /\ last.op = "replace" /\ last.ret = "0"
    /\ last.log[1][2] # last.log[2][2]
    /\ dictIsRehashing(d)
    /\ last.key \in TableKeys(d.ht[1])
    /\ TableKeys(d.ht[0]) # {}

\* what a delete returns for a key that is in neither table of a dictionary
\* whose ht[0] is allocated
NotFoundRet == dictGenericDelete(dictExpand(_dictInit, DICT_HT_INITIAL_SIZE).d, 1, FALSE).ret

\* C9 as stated: a delete on a table whose ht[0] was never allocated returns an
\* error the caller can tell from the one returned for an absent key.
C9_EmptyErrorDistinct ==
    [][(last'.op = "delete" /\ d.ht[0].size = 0) => last'.ret # NotFoundRet]_vars

\* C9: a delete on a table whose ht[0] was never allocated returns DICT_ERR,
\* the very value returned for an absent key in an allocated table, destroys
\* nothing and leaves the dictionary as it was.
C9_EmptyErrorSameAsNotFound ==
    [][(last'.op = "delete" /\ d.ht[0].size = 0) =>
          /\ last'.ret = "DICT_ERR"
          /\ last'.ret = NotFoundRet
          /\ last'.log = <<>>
          /\ d' = d]_vars

\* a delete has returned from a dictionary that was never allocated
C9_Witness ==
    /\ last.op = "delete" /\ last.ret = "DICT_ERR"
    /\ d.ht[0].size = 0
    /\ TableIsNull(d.ht[0])

\* C10: during a scan with a safe iterator the caller may delete any entry of
\* the table between two dictNext calls, and dictNext never returns a pointer
\* to an entry that has been deleted.
C10_SafeScanSkipsDeleted ==
    \A i \in Iters : (iters[i].live /\ iters[i].safe) => ~iters[i].retFreed

\* C11: for a safe and for a plain iterator alike, when the only calls made
\* between dictNext calls are deletions of the entry dictNext has just
\* returned, dictNext never returns a pointer to a deleted entry, whether the
\* table is stable or rehashing.
C11_DeleteCurrentIsSafe ==
    \A i \in Iters :
        (iters[i].live /\ iters[i].scan \in {"alone", "delcur"}) => ~iters[i].retFreed

\* a plain iterator has advanced to a live entry after the entry it had
\* returned before was deleted, on a table in the middle of a rehash
C11_Witness ==
    \E i \in Iters :
        /\ iters[i].live /\ ~iters[i].safe /\ iters[i].scan = "delcur"
        /\ last.op = "next" /\ last.ret = "ENTRY"
        /\ iters[i].entry # NULL /\ iters[i].entry[1] \in LinkedKeys(d)
        /\ dictIsRehashing(d)
        /\ TableKeys(d.ht[0]) # {} /\ TableKeys(d.ht[1]) # {}

\* dd2 is dd after one rehash step and the removal of the keys in gone: the
\* first non-empty slot of ht[0] at or after the cursor was moved to ht[1], or,
\* ht[0] being drained, ht[1] took its place
StepTaken(dd, dd2, gone) ==
    IF dd.ht[0].used = 0
    THEN /\ dd2.ht[0].size = dd.ht[1].size
         /\ dd2.rehashidx \in {-1, 0}
         /\ (TableKeys(dd.ht[1]) \ gone) \subseteq TableKeys(dd2.ht[0])
    ELSE \E i \in dd.rehashidx..(dd.ht[0].size - 1) :
            /\ dd.ht[0].table[i] # <<>>
            /\ \A j \in dd.rehashidx..(i - 1) : dd.ht[0].table[j] = <<>>
            /\ dd2.rehashidx = i + 1
            /\ dd2.ht[0].table[i] = <<>>
            /\ (ChainKeys(dd.ht[0].table[i]) \ gone) \subseteq TableKeys(dd2.ht[1])

\* a call follows the release of the last safe iterator on a rehashing table
AfterLastRelease ==
    /\ last.op = "release" /\ last.ret = "safe"
    /\ \A i \in Iters : ~iters[i].live
    /\ dictIsRehashing(d)

C13_NoMoveUnderSafeIterator ==
    [][d.iterators # 0 =>
          \A x \in LinkedKeys(d) \cap LinkedKeys(d') : Generation(d', x) = Generation(d, x)]_vars

\* a dictAdd call is made on a table that is not rehashing and has ht[0]
\* allocated
AddOnStable == last'.op = "add" /\ ~dictIsRehashing(d) /\ d.ht[0].size # 0

IsPowerOfTwo(n) == \E j \in 0..n : n = 2 ^ j

C15_ForcedGrowthAboveFive ==
    [][(~dict_can_resize /\ AddOnStable
          /\ d.ht[0].used > dict_force_resize_ratio * d.ht[0].size) =>
          dictIsRehashing(d')]_vars

\* C16: with the resize gate disabled, an insertion into a stable table with
\* ht[0] allocated and ht[0].used <= 5 * ht[0].size begins no rehash: the table
\* stays stable, ht[0] keeps its length, and a new key is linked in ht[0].
C16_GateHoldsGrowth ==
    [][(~dict_can_resize /\ AddOnStable
          /\ d.ht[0].used <= dict_force_resize_ratio * d.ht[0].size) =>
          /\ ~dictIsRehashing(d')
          /\ d'.ht[0].size = d.ht[0].size
          /\ d'.ht[1] = d.ht[1]
          /\ last'.ret = "DICT_OK" <=> last'.key \notin LinkedKeys(d)
          /\ last'.ret = "DICT_OK" =>
                /\ last'.key \in TableKeys(d'.ht[0])
                /\ d'.ht[0].used = d.ht[0].used + 1]_vars

\* with the gate disabled an insertion has taken a table of 4 slots past 5
\* entries a slot without a rehash
C16_Witness ==
    /\ last.op = "add" /\ last.ret = "DICT_OK"
    /\ ~dict_can_resize
    /\ ~dictIsRehashing(d)
    /\ d.ht[0].size = DICT_HT_INITIAL_SIZE
    /\ d.ht[0].used = dict_force_resize_ratio * d.ht[0].size + 1

\* C17: dictResize called while the table is rehashing or while the resize
\* gate is disabled returns DICT_ERR and leaves both tables, the cursor, the
\* counts and the entries as they were.
C17_ResizeRefused ==
    [][(last'.op = "resize" /\ (dictIsRehashing(d) \/ ~dict_can_resize)) =>
          /\ last'.ret = "DICT_ERR"
          /\ d' = d]_vars

\* a resize was refused, the gate enabled, in the middle of a rehash
C17_Witness ==
    /\ last.op = "resize" /\ last.ret = "DICT_ERR"
    /\ dict_can_resize
    /\ dictIsRehashing(d) /\ d.rehashidx > 0
    /\ TableKeys(d.ht[0]) # {} /\ TableKeys(d.ht[1]) # {}

\* C18: dictExpand called while the table is rehashing, or with a size below
\* ht[0].used, returns DICT_ERR and changes nothing: ht[1], the cursor and every
\* entry stay as they were.
C18_ExpandRefused ==
    [][(last'.op = "expand" /\ (dictIsRehashing(d) \/ last'.key < d.ht[0].used)) =>
          /\ last'.ret = "DICT_ERR"
          /\ d' = d]_vars

\* an expand to a larger size was refused in the middle of a rehash
C18_Witness ==
    /\ last.op = "expand" /\ last.ret = "DICT_ERR"
    /\ last.key > d.ht[1].size
    /\ dictIsRehashing(d) /\ d.rehashidx > 0
    /\ TableKeys(d.ht[0]) # {} /\ TableKeys(d.ht[1]) # {}

\* C19: a delete on a stable table leaves it stable with ht[0] of the same
\* length, however few entries are left; a rehash into a shorter table begins
\* only in a dictResize or dictExpand call, and but for dictEmpty, which frees
\* both tables, ht[0] gets shorter only when such a rehash completes.
C19_DeleteNeverResizes ==
    [][/\ (last'.op = "delete" /\ ~dictIsRehashing(d)) =>
              (~dictIsRehashing(d') /\ d'.ht[0].size = d.ht[0].size /\ d'.ht[1] = d.ht[1])
       /\ (~dictIsRehashing(d) /\ dictIsRehashing(d') /\ d'.ht[1].size < d'.ht[0].size) =>
              last'.op \in {"resize", "expand"}
       /\ (d'.ht[0].size < d.ht[0].size /\ last'.op # "empty") =>
              (dictIsRehashing(d) /\ d'.ht[0].size = d.ht[1].size)]_vars

\* a delete has taken the last entry out of a stable table of 8 slots
C19_Witness ==
    /\ last.op = "delete" /\ last.ret = "DICT_OK"
    /\ ~dictIsRehashing(d)
    /\ d.ht[0].size = MaxExpand
    /\ d.ht[0].used = 0

\* C20: dictGetRandomKey returns NULL exactly when the table holds no entry;
\* otherwise it returns an entry that is linked in ht[0] or ht[1], with its
\* value, whether the table is stable or rehashing.
C20_RandomKeyIsStored ==
    [][last'.op = "random" =>
          /\ last'.he = NULL <=> dictSize(d) = 0
          /\ last'.he # NULL =>
                /\ <<last'.he[1].key, last'.he[1].val>> \in Contents(d)
                /\ <<last'.he[1].key, last'.he[1].val>> \in Contents(d')
          /\ Contents(d') = Contents(d)]_vars

\* a random-key call has returned an entry of ht[1] while ht[0] holds others
C20_Witness ==
    /\ last.op = "random" /\ last.he # NULL
    /\ dictIsRehashing(d)
    /\ last.he[1].key \in TableKeys(d.ht[1])
    /\ TableKeys(d.ht[0]) # {}

\* C21: a call of dictGetRandomKey on a table that holds an entry leaves its
\* rejection loop: under a fair random source the loop, once entered, leads to
\* the return of an entry, in a stable table and in a rehashing one, the one
\* whose ht[0] is drained but not yet swapped included.
C21_SamplingTerminates == (rnd.pc = "loop") ~> (rnd.pc = "idle" /\ last.ret = "ENTRY")

\* the loop has returned the only entry of a rehashing table whose ht[0] is
\* drained, after a draw that hit the one occupied slot of ht[1]
C21_Witness ==
    /\ rnd.pc = "idle"
    /\ last.op = "random"
    /\ last.ret = "ENTRY"
    /\ dictIsRehashing(d)
    /\ d.ht[0].used = 0
    /\ dictSize(d) = 1
    /\ rnd.h >= d.ht[0].size

\* the slots of ht that hold a chain
OccupiedSlots(ht) == {i \in DOMAIN ht.table : ht.table[i] # <<>>}

C23_ResizeUnallocatedFails ==
    [][(last'.op = "resize" /\ d.ht[0].size = 0) =>
          /\ last'.ret = "DICT_ERR"
          /\ d' = d]_vars

\* C23: dictResize called on a table whose ht[0] was never allocated, the
\* resize gate enabled, returns DICT_OK and allocates ht[0] with
\* DICT_HT_INITIAL_SIZE empty slots, ht[1] left unallocated and no rehash
\* begun; with the gate disabled it returns DICT_ERR and changes nothing.
C23_ResizeUnallocatedAllocates ==
    [][(last'.op = "resize" /\ d.ht[0].size = 0) =>
          IF dict_can_resize
          THEN /\ last'.ret = "DICT_OK"
               /\ d'.ht[0].size = DICT_HT_INITIAL_SIZE
               /\ d'.ht[0].used = 0
               /\ TableKeys(d'.ht[0]) = {}
               /\ TableIsNull(d'.ht[1])
               /\ ~dictIsRehashing(d')
          ELSE /\ last'.ret = "DICT_ERR"
               /\ d' = d]_vars

\* dictResize has returned DICT_OK on a table that was unallocated at the call
C23_Witness ==
    /\ last.op = "resize"
    /\ last.ret = "DICT_OK"
    /\ last.log = << <<"size", 0>> >>
    /\ d.ht[0].size = DICT_HT_INITIAL_SIZE

\* C24: when a key in the watched_keys list of client c has been touched, and
\* c has since then neither unwatched nor left a transaction by DISCARD or
\* EXEC, an EXEC of c inside MULTI replies with the nil multi-bulk and hands no
\* command to call().
C24_TouchedWatchFailsExec ==
    [][\A c \in Clients :
          (hist'.op = "exec" /\ hist'.c = c /\ InMulti(c) /\ c \in hist.touched) =>
             /\ hist'.reply = "nullmultibulk"
             /\ hist'.called = <<>>]_vars

\* an EXEC has failed with a full queue, dropped unexecuted, while the other
\* client still watches a key
C24_Witness ==
    /\ hist.op = "exec"
    /\ hist.reply = "nullmultibulk"
    /\ hist.called = <<>>
    /\ Len(hist.queued[hist.c]) = MaxQueued
    /\ client[hist.c].mstate.count = 0
    /\ dictSize(db.watched_keys) > 0

\* C25: an EXEC inside MULTI by a client whose REDIS_DIRTY_CAS flag is clear
\* hands to call() exactly the commands queued since the client's MULTI, each
\* once and in the order they were queued, and leaves the queue empty.
C25_ExecRunsQueueInOrder ==
    [][\A c \in Clients :
          (hist'.op = "exec" /\ hist'.c = c /\ InMulti(c)
             /\ "REDIS_DIRTY_CAS" \notin client[c].flags) =>
             /\ hist'.reply = "multibulk"
             /\ hist'.called = hist.queued[c]
             /\ client'[c].mstate = initClientMultiState]_vars

\* an EXEC has run two different commands in the order they were queued
C25_Witness ==
    /\ hist.op = "exec"
    /\ hist.reply = "multibulk"
    /\ hist.called = <<2, 1>>
    /\ hist.queued[hist.c] = <<2, 1>>
    /\ client[hist.c].mstate.count = 0

\* the clients on the list of some channel of server.pubsub_channels
Listeners(srv) ==
    {c \in Clients : \E e \in Contents(srv.pubsub_channels) : listSearchKey(e[2], c) # 0}

\* C26: pubsubUnsubscribeAllChannels returns the number of entries the
\* client's pubsub_channels held at the call, in a stable table and in one in
\* the middle of a rehash, and leaves that table without entries and the
\* client on no list of server.pubsub_channels; no assertion fails on the way.
C26_UnsubscribeAllCountsAll ==
    [][\A c \in Clients :
          (hist'.op = "unsubscribeall" /\ hist'.c = c) =>
             /\ hist'.reply = dictSize(client[c].pubsub_channels)
             /\ dictSize(client'[c].pubsub_channels) = 0
             /\ LinkedKeys(client'[c].pubsub_channels) = {}
             /\ client'[c].pubsub_channels.iterators = 0
             /\ c \notin Listeners(server')
             /\ ~hist'.fault]_vars

\* the call has returned a count that is the whole of a table it left in
\* the middle of a rehash, with the other client still on a list
C26_Witness ==
    /\ hist.op = "unsubscribeall"
    /\ hist.reply >= DICT_HT_INITIAL_SIZE
    /\ dictIsRehashing(client[hist.c].pubsub_channels)
    /\ client[hist.c].pubsub_channels.rehashidx > 0
    /\ Listeners(server) # {}

\* C27: after a call of slowlogPushEntryIfNeeded, whatever the two
\* configuration values at the call, the slow log holds at most
\* slowlog_max_len entries, and they are the entries created last, newest
\* first: the ids run down by one from the id given out last.
C27_SlowlogWithinMaxLen ==
    [][hist'.op = "slowlogpush" =>
          /\ Len(server'.slowlog) <= server'.slowlog_max_len
          /\ \A i \in 1..Len(server'.slowlog) :
                server'.slowlog[i].id = server'.slowlog_entry_id - i]_vars

\* the slots of ht[0] the rehash cursor has passed
PassedSlots(dd) == {i \in DOMAIN dd.ht[0].table : i < dd.rehashidx}

\* d and d2 are states of one and the same rehash
SameRehash(dd, dd2) ==
    /\ dictIsRehashing(dd) /\ dictIsRehashing(dd2)
    /\ dd2.ht[0].size = dd.ht[0].size
    /\ dd2.ht[1].size = dd.ht[1].size

\* C28: in every rehashing state each slot of ht[0] below rehashidx is empty,
\* and no call made during a rehash links into ht[0] an entry that was not
\* there before the call.
C28_PassedSlotsStayEmpty ==
    [][/\ dictIsRehashing(d') => \A i \in PassedSlots(d') : d'.ht[0].table[i] = <<>>
       /\ SameRehash(d, d') => TableKeys(d'.ht[0]) \subseteq TableKeys(d.ht[0])]_vars

\* a key whose slot of ht[0] the cursor has passed was added during a rehash
\* that still has entries to move
C28_Witness ==
    /\ last.op = "add" /\ last.ret = "DICT_OK"
    /\ dictIsRehashing(d)
    /\ BitAnd(dictHashKey(last.key), d.ht[0].sizemask) < d.rehashidx
    /\ last.key \in TableKeys(d.ht[1])
    /\ TableKeys(d.ht[0]) # {}

\* C29 as stated: in every rehashing state ht[1] has at least as many slots
\* as ht[0].
C29_IncomingNotSmaller == dictIsRehashing(d) => d.ht[1].size >= d.ht[0].size

\* C29: a call that begins a rehash leaves an ht[1] whose size is a power of
\* two, at least DICT_HT_INITIAL_SIZE and at least the number of entries
\* stored; it is at least twice the size of ht[0] when an insertion began the
\* rehash, and it can be below the size of ht[0] when dictResize or
\* dictExpand did.
C29_IncomingHoldsEntries ==
    [][(dictIsRehashing(d') /\ ~SameRehash(d, d')) =>
          /\ IsPowerOfTwo(d'.ht[1].size)
          /\ d'.ht[1].size >= DICT_HT_INITIAL_SIZE
          /\ d'.ht[1].size >= dictSize(d')
          /\ last'.op \in {"add", "replace"} => d'.ht[1].size >= 2 * d'.ht[0].size]_vars

\* dictResize has begun a rehash of a table with entries into fewer slots
C29_Witness ==
    /\ last.op = "resize" /\ last.ret = "DICT_OK"
    /\ dictIsRehashing(d)
    /\ d.rehashidx = 0
    /\ d.ht[1].size < d.ht[0].size
    /\ dictSize(d) > 0

C31_RehashAssertionHolds ==
    /\ last.ret \notin {"assert", "out_of_bounds"}
    /\ (dictIsRehashing(d) /\ d.ht[0].used # 0)
          => /\ d.ht[0].size > d.rehashidx
             /\ SkipEmpty(d.ht[0], d.rehashidx) < d.ht[0].size
             /\ dictRehash(d, 1).fault = "none"

\* a rehash step that skipped the empty slot 0 and moved slot 1 while a safe
\* iterator is registered, with an entry still in ht[0]
C31_Witness ==
    /\ last.op = "rehash" /\ last.ret = "1"
    /\ last.log = << <<"rehashidx", 0>> >>
    /\ d.rehashidx = 2
    /\ d.ht[0].used > 0
    /\ iters[1].live /\ iters[1].safe /\ d.iterators = 1

\* every entry of a chain of ht is in the slot its key hashes to under the
\* mask of ht
SlotsMatchHash(ht) ==
    \A i \in DOMAIN ht.table : \A p \in 1..Len(ht.table[i]) :
        BitAnd(dictHashKey(ht.table[i][p].key), ht.sizemask) = i

(* C32: in every reachable state, in ht[0] and in ht[1], every entry reachable
   from slot i has a key whose hash masked with that array's sizemask, which
   is its size - 1, equals i. *)
C32_EntriesInHashedSlot ==
    \A t \in {0, 1} :
        /\ d.ht[t].size > 0 => d.ht[t].sizemask = d.ht[t].size - 1
        /\ SlotsMatchHash(d.ht[t])

\* a rehash step has moved a chain into an array of another size, entries are
\* linked in both arrays, and a key sits in a slot that is not its slot of the
\* other array
C32_Witness ==
    /\ last.op = "rehash" /\ dictIsRehashing(d)
    /\ d.ht[0].used > 0 /\ d.ht[1].used > 1
    /\ d.ht[0].size # d.ht[1].size
    /\ \E i \in DOMAIN d.ht[1].table :
          /\ d.ht[1].table[i] # <<>>
          /\ BitAnd(dictHashKey(d.ht[1].table[i][1].key), d.ht[0].sizemask) # i

\* the number of entries linked in the chains of ht from slot i on
RECURSIVE LinkedCount(_, _)
LinkedCount(ht, i) ==
    IF i >= ht.size THEN 0 ELSE Len(ht.table[i]) + LinkedCount(ht, i + 1)

(* C33: in every reachable state the used counter of ht[0] and of ht[1] equals
   the number of entries linked in its chains, no key is linked more than once
   in the two arrays together, and dictSize, ht[0].used + ht[1].used, equals
   the number of distinct keys added and not deleted, which are the keys
   linked. *)
C33_UsedCountsLinkedEntries ==
    /\ \A t \in {0, 1} : d.ht[t].used = LinkedCount(d.ht[t], 0)
    /\ LinkedCount(d.ht[0], 0) + LinkedCount(d.ht[1], 0) = Cardinality(LinkedKeys(d))
    /\ LinkedKeys(d) = DOMAIN abs
    /\ dictSize(d) = Cardinality(DOMAIN abs)

\* a delete has unlinked an entry in the middle of a rehash that has entries
\* in both arrays, one of them in a chain of two
C33_Witness ==
    /\ last.op = "delete" /\ last.ret = "DICT_OK"
    /\ dictIsRehashing(d)
    /\ d.ht[0].used > 0 /\ d.ht[1].used > 1
    /\ \E t \in {0, 1} : \E i \in DOMAIN d.ht[t].table : Len(d.ht[t].table[i]) = 2

(* C34: whenever a dictRehash call leaves ht[0].used at 0, that same call
   completes the rehash: at its return ht[1] has been promoted to ht[0], ht[1]
   is reset and rehashidx is -1.  So after a dictRehash call made on a
   rehashing table, a table that is still rehashing has an entry left in
   ht[0]. *)
C34_DrainingCallCompletes ==
    (last.op = "rehash" /\ last.log # <<>> /\ dictIsRehashing(d))
        => d.ht[0].used # 0

\* the safe iterators that dictNext has advanced at least once and that are not
\* released
Registered ==
    {i \in Iters : iters[i].live /\ iters[i].safe
                       /\ ~(iters[i].index = -1 /\ iters[i].table = 0)}

(* C35: under any interleaving of iterator creation, dictNext and
   dictReleaseIterator with add, delete and dictEmpty, the safe-iterator count
   of the table equals the number of safe iterators advanced at least once and
   not yet released; in particular it is never negative. *)
C35_IteratorsCountsRegistered ==
    /\ d.iterators = Cardinality(Registered)
    /\ d.iterators >= 0

\* the number of nodes of list whose value is c
Occurrences(list, c) == Cardinality({i \in 1..Len(list) : list[i] = c})

(* C36: after any sequence of WATCH, UNWATCH, EXEC and DISCARD commands (and
   touches of keys) by the clients, for every key of the database: a client is
   in the clients list that db->watched_keys holds for the key exactly when
   the client's own watched_keys list holds the (key, db) pair, it is there at
   most once, and db->watched_keys holds no key whose list is empty; no
   assertion of unwatchAllKeys has failed. *)
C36_WatchListsAgree ==
    /\ ~hist.fault
    /\ \A kv \in Contents(db.watched_keys) :
          /\ kv[2] # <<>>
          /\ \A c \in Clients :
                /\ Occurrences(kv[2], c) <= 1
                /\ Occurrences(kv[2], c) = 1 <=> AlreadyWatched(client[c], kv[1])
          /\ \A i \in 1..Len(kv[2]) : kv[2][i] \in Clients
    /\ \A c \in Clients : \A i \in 1..Len(client[c].watched_keys) :
          /\ client[c].watched_keys[i].db = db.id
          /\ Occurrences(client[c].watched_keys, client[c].watched_keys[i]) = 1
          /\ \E kv \in Contents(db.watched_keys) :
                kv[1] = client[c].watched_keys[i].key /\ Occurrences(kv[2], c) = 1
    /\ \A kv1, kv2 \in Contents(db.watched_keys) : kv1[1] = kv2[1] => kv1 = kv2

\* client 1 has left a transaction whose EXEC failed on a touched watched key,
\* so it watched one and watches none now, and client 2 alone is left in the
\* list of a key
C36_Witness ==
    /\ hist.op = "exec" /\ hist.c = 1 /\ hist.reply = "nullmultibulk"
    /\ client[1].watched_keys = <<>>
    /\ client[2].watched_keys # <<>>
    /\ \E kv \in Contents(db.watched_keys) : kv[2] = <<2>>

(* C37: after an EXEC issued inside MULTI, whether it aborts on a touched
   watched key or executes the queue, and after a DISCARD issued inside MULTI,
   the client has neither the REDIS_MULTI nor the REDIS_DIRTY_CAS flag, its
   command queue is empty and it watches no key: its own watched_keys list is
   empty and no list of db->watched_keys holds it. *)
C37_TransactionEndsClean ==
    ((hist.op = "exec" /\ hist.reply \in {"multibulk", "nullmultibulk"})
       \/ (hist.op = "discard" /\ hist.reply = "ok"))
    => /\ client[hist.c].flags \cap {"REDIS_MULTI", "REDIS_DIRTY_CAS"} = {}
       /\ client[hist.c].mstate = initClientMultiState
       /\ client[hist.c].watched_keys = <<>>
       /\ \A kv \in Contents(db.watched_keys) : Occurrences(kv[2], hist.c) = 0

\* an EXEC of client 1 that aborted a transaction of two queued commands while
\* client 2 watches a key
C37_Witness ==
    /\ hist.op = "exec" /\ hist.c = 1 /\ hist.reply = "nullmultibulk"
    /\ Len(hist.queued[1]) = MaxQueued
    /\ client[2].watched_keys # <<>>

(* C38: after any sequence of subscribe and unsubscribe operations by the
   clients, a client is in the list server.pubsub_channels holds for a channel
   exactly when the channel is a key of the client's own pubsub_channels, it
   is there at most once, and server.pubsub_channels holds no channel whose
   list is empty; no assertion of pubsubUnsubscribeChannel has failed. *)
C38_ChannelListsAgree ==
    /\ ~hist.fault
    /\ \A e \in Contents(server.pubsub_channels) :
          /\ e[2] # <<>>
          /\ \A c \in Clients :
                /\ Occurrences(e[2], c) <= 1
                /\ Occurrences(e[2], c) = 1 <=> e[1] \in LinkedKeys(client[c].pubsub_channels)
          /\ \A i \in 1..Len(e[2]) : e[2][i] \in Clients
    /\ \A c \in Clients : \A channel \in LinkedKeys(client[c].pubsub_channels) :
          \E e \in Contents(server.pubsub_channels) :
              e[1] = channel /\ Occurrences(e[2], c) = 1
    /\ \A e1, e2 \in Contents(server.pubsub_channels) : e1[1] = e2[1] => e1 = e2

\* client 2 has unsubscribed from the channel it shared with client 1, which
\* stays alone on its list and is subscribed to more channels than a table of
\* 4 slots holds without growing
C38_Witness ==
    /\ hist.op = "unsubscribe" /\ hist.c = 2 /\ hist.reply = 1
    /\ \E e \in Contents(server.pubsub_channels) : e[1] = 1 /\ e[2] = <<1>>
    /\ dictSize(client[1].pubsub_channels) > DICT_HT_INITIAL_SIZE
    /\ dictSize(client[2].pubsub_channels) = 0

\* the clients whose own pubsub_channels holds the channel, and the pattern
\* subscriptions, a client and a position of its own pubsub_patterns list,
\* whose pattern matches the channel
ChannelSubscribers(channel) ==
    {c \in Clients : channel \in LinkedKeys(client[c].pubsub_channels)}

PatternSubscriptions(channel) ==
    {ci \in UNION {{<<c, i>> : i \in 1..Len(client[c].pubsub_patterns)} : c \in Clients} :
        stringmatchlen(client[ci[1]].pubsub_patterns[ci[2]], channel)}

(* C39: pubsubPublishMessage(channel, message) returns the number of messages
   it delivered, which is the number of clients subscribed to the channel plus
   the number of (client, pattern) subscriptions whose pattern matches the
   channel; each of these subscriptions receives the message exactly once, and
   no client receives one without a matching subscription. *)
C39_PublishReachesSubscribers ==
    hist.op = "publish" =>
        /\ hist.reply = Len(hist.called)
        /\ hist.reply = Cardinality(ChannelSubscribers(hist.c))
                            + Cardinality(PatternSubscriptions(hist.c))
        /\ \A c \in ChannelSubscribers(hist.c) :
              Occurrences(hist.called, Message(c, hist.c)) = 1
        /\ \A ci \in PatternSubscriptions(hist.c) :
              Occurrences(hist.called,
                          PMessage(ci[1], client[ci[1]].pubsub_patterns[ci[2]], hist.c)) = 1
        /\ \A j \in 1..Len(hist.called) :
              \/ /\ hist.called[j].kind = "message"
                 /\ hist.called[j].channel = hist.c
                 /\ hist.called[j].client \in ChannelSubscribers(hist.c)
              \/ /\ hist.called[j].kind = "pmessage"
                 /\ hist.called[j].channel = hist.c
                 /\ \E ci \in PatternSubscriptions(hist.c) :
                       /\ ci[1] = hist.called[j].client
                       /\ client[ci[1]].pubsub_patterns[ci[2]] = hist.called[j].pattern
        /\ ~hist.fault

\* a message published to channel 2 reached client 1 twice, as a subscriber
\* of the channel and through its pattern "*", and client 2 through its
\* pattern "*", and did not reach the pattern "1" of client 1
C39_Witness ==
    /\ hist.op = "publish" /\ hist.c = 2 /\ hist.reply = 3
    /\ ChannelSubscribers(2) = {1}
    /\ client[1].pubsub_patterns = <<"1", "*">>
    /\ client[2].pubsub_patterns = <<"*">>

(* C40: during one call of processTimeEvents no event created by a handler
   within the call is fired in the call: every event fired has an id that was
   in the list when the call started, at most maxId, also after the scan
   restarted from the head of the list. *)
C40_NewEventsNotFired ==
    \A i \in 1..Len(pte.fired) :
        /\ pte.fired[i] \in pte.ids
        /\ pte.fired[i] <= pte.maxId
        /\ pte.fired[i] \notin pte.created

\* a call has returned after it fired an event whose handler created an
\* event that is in the list with its time reached
C40_Witness ==
    /\ pte.pc = "idle"
    /\ pte.fired # <<>>
    /\ \E p \in 1..Len(eventLoop.timeEventHead) :
           /\ eventLoop.timeEventHead[p].id \in pte.created
           /\ TimeReached(eventLoop.timeEventHead[p], aeGetTime(clock))

====
